---------------------------- MODULE Spec2Model ----------------------------
(***************************************************************************)
(* Platform driver finite-state machine of ion/agents/platform/            *)
(* platform_driver.py: the transition table built by _construct_fsm, the   *)
(* UNCONFIGURED / DISCONNECTED / CONNECTED handlers, the connection-lost   *)
(* recovery (_connection_lost) and the ENTER / EXIT hooks, driven through  *)
(* the FSM engine's on_event by a finite set of concurrent callers.        *)
(*                                                                         *)
(* The engine itself (pyon.agent.instrument_fsm.ThreadSafeFSM) is not part *)
(* of the sources; its on_event is modelled from the specification (4.1,   *)
(* 5): take the engine's lock, look the handler of (current state, event)  *)
(* up, fail when there is none, run it, and on a next state run EXIT,      *)
(* change the state, run ENTER, release the lock, return the result.       *)
(*                                                                         *)
(* Device primitives, the validation hook and the listener callback are    *)
(* supplied from outside: each invocation's outcome is a nondeterministic  *)
(* choice (normal return, connection fault, any other exception).          *)
(*                                                                         *)
(* Specifications:                                                         *)
(*   Spec     one driver, concurrent callers of on_event;                  *)
(*   CapSpec  one driver, one caller, get_resource_capabilities read in    *)
(*            between;                                                     *)
(*   InstSpec two driver instances, each with its own listener;            *)
(*   UnsSpec  the user notification service of ion/services/dm/            *)
(*            presentation/user_notification_service.py (create_, update_  *)
(*            and delete_notification) with the resource registry and the  *)
(*            event bus it uses.                                           *)
(* Each specification starts from Init and leaves the variables of the     *)
(* others as they are.                                                     *)
(***************************************************************************)
EXTENDS Naturals, Sequences, FiniteSets, TLC

\* ------------------------------------------------------------------ bounds

\* Number of concurrent callers of on_event (threads of the owning agent).
NumCallers == 2

\* No further on_event call is issued once the listener has received this
\* many notifications.
MaxSent == 5

\* Two driver instances: no further on_event call is sent to an instance
\* whose listener has received this many notifications.
MaxReceived == 3

\* User notification service: no further call that publishes is made once
\* this many ReloadUserInfoEvents were published.
MaxPublished == 2

Callers == 1..NumCallers

\* ------------------------------------------------------------ enumerations

None == "None"

UNCONFIGURED == "PLATFORM_DRIVER_STATE_UNCONFIGURED"
DISCONNECTED == "PLATFORM_DRIVER_STATE_DISCONNECTED"
CONNECTED == "PLATFORM_DRIVER_STATE_CONNECTED"

PlatformDriverState == {UNCONFIGURED, DISCONNECTED, CONNECTED}

ENTER == "PLATFORM_DRIVER_EVENT_ENTER"
EXIT == "PLATFORM_DRIVER_EVENT_EXIT"
CONFIGURE == "PLATFORM_DRIVER_EVENT_CONFIGURE"
CONNECT == "PLATFORM_DRIVER_EVENT_CONNECT"
CONNECTION_LOST == "PLATFORM_DRIVER_CONNECTION_LOST"
DISCONNECT == "PLATFORM_DRIVER_EVENT_DISCONNECT"
PING == "PLATFORM_DRIVER_PING"
GET == "PLATFORM_DRIVER_GET"
SET == "PLATFORM_DRIVER_SET"
EXECUTE == "PLATFORM_DRIVER_EXECUTE"

PlatformDriverEvent ==
    {ENTER, EXIT, CONFIGURE, CONNECT, CONNECTION_LOST, DISCONNECT,
     PING, GET, SET, EXECUTE}

\* The events a caller sends; ENTER and EXIT are fired by the engine only.
CallerEvents == PlatformDriverEvent \ {ENTER, EXIT}

\* AsyncAgentEvent(PlatformAgentEvent.LOST_CONNECTION)
LOST_CONNECTION == "LOST_CONNECTION"

\* ------------------------------------------------- outcomes of the outside

\* How an invocation of a device primitive or of the validation hook ends.
OK == "ok"
PlatformConnectionException == "PlatformConnectionException"
PlatformDriverException == "PlatformDriverException"
OtherException == "OtherException"

\* connect, disconnect, ping, get, set_attribute_values, execute
PrimitiveOutcomes == {OK, PlatformConnectionException, OtherException}

\* validate_driver_configuration
ValidationOutcomes == {OK, PlatformDriverException, OtherException}

\* The listener callback (event_callback) returns or raises.
ListenerException == "ListenerException"
ListenerOutcomes == {OK, ListenerException}

\* How an on_event call ends.
RETURNED == "returned"
FSMStateError == "FSMStateError"
FSMError == "FSMError"

\* ------------------------------------------------------- arguments of calls

Configs == {"config_a", "config_b"}

\* The attrs keyword of SET: absent, an empty list or a list of pairs.
AttrLists == {<< >>, << "attr_1" >>}

\* The keyword and positional arguments an event is sent with.
\*   driver_config : kwargs.get('driver_config', None)
\*   has_attrs, attrs : kwargs.get('attrs', None)
\*   nargs : len(args)
NoArgs == [driver_config |-> None, has_attrs |-> FALSE, attrs |-> << >>, nargs |-> 0]

ArgsOf(e) ==
    CASE e = CONFIGURE ->
           {[NoArgs EXCEPT !.driver_config = c] : c \in Configs \cup {None}}
      [] e = SET ->
           {NoArgs} \cup {[NoArgs EXCEPT !.has_attrs = TRUE, !.attrs = a] : a \in AttrLists}
      [] e = EXECUTE ->
           {NoArgs, [NoArgs EXCEPT !.nargs = 1]}
      [] OTHER -> {NoArgs}

\* What the outside does during one handler run: the outcome of the handler's
\* own primitive (or validation hook), of the disconnect() of the recovery,
\* and of the listener callback for the lost-connection notification.
Envs ==
    [prim : PrimitiveOutcomes \cup ValidationOutcomes,
     disc : PrimitiveOutcomes,
     lis : ListenerOutcomes]

\* ------------------------------------------------- records of what happened

\* One step of a call, in the order the code performs them.
Prim(name, outcome) == [k |-> "prim", a |-> name, b |-> outcome]
Notify(what, st) == [k |-> "notify", a |-> what, b |-> st]
Hook(ev, st) == [k |-> "hook", a |-> ev, b |-> st]

\* Return values of the primitives (opaque, one token each).
RetOf(name) == "ret_" \o name


\* ------------------------------------------------------------------- state

VARIABLES
    current_state,   \* the engine's current state (get_driver_state())
    driver_config,   \* self._driver_config
    lock,            \* the caller holding the engine's lock, 0 when free
    call,            \* per caller: the on_event call it is in
    last,            \* the on_event call that ended last, as it ended
    sent,            \* what the listener callback has received, in order
    serial,          \* the state after the completed calls, applied one by one
    detected,        \* connection losses detected so far
    after_loss,      \* what followed the most recent detected loss
    caps,            \* the get_resource_capabilities call made last
    store,           \* two driver instances: the value of each attribute
    received,        \* two driver instances: what each listener received
    dispatched,      \* two driver instances: the on_event call made last
    rr_notifications, \* resource registry: the NotificationRequests persisted
    rr_created,      \* resource registry: how many it has created
    rr_users,        \* resource registry: per user, the notifications listed
    event_processors, \* UserNotificationService.event_processors
    subscribers,     \* the event subscriber of each notification
    published,       \* the ReloadUserInfoEvents published, in order
    uns_last         \* the call of the notification service made last

\* The driver instance the concurrent callers send their events to.
driver_vars ==
    << current_state, driver_config, lock, call, last, sent, serial,
       detected, after_loss >>

\* The capabilities read.
cap_vars == << caps >>

\* Two driver instances side by side.
inst_vars == << store, received, dispatched >>

\* The user notification service and the resource registry it uses.
uns_vars ==
    << rr_notifications, rr_created, rr_users, event_processors, subscribers,
       published, uns_last >>

\* What no on_event call of the concurrent callers writes.
outside_on_event == << cap_vars, inst_vars, uns_vars >>

vars == << driver_vars, outside_on_event >>

\* A caller outside on_event.
Idle ==
    [pc |-> "idle", event |-> None, kw |-> NoArgs,
     from |-> None, next_state |-> None, result |-> None, outcome |-> None,
     ops |-> << >>, end |-> None, config |-> None]

\* ------------------------------------------------- the result of a handler

\* (next_state, result) of a handler, or the exception it raised, with the
\* steps it performed and the driver configuration it leaves.
Ret(next_state, result, ops, cfg) ==
    [next_state |-> next_state, result |-> result, raised |-> None,
     ops |-> ops, config |-> cfg]

Raise(exc, ops, cfg) ==
    [next_state |-> None, result |-> None, raised |-> exc,
     ops |-> ops, config |-> cfg]

\* ------------------------------------------------------ _connection_lost

\* disconnect() is attempted, whatever it raises is ignored; the agent is
\* notified (the callback may raise: nothing catches it); the next state is
\* DISCONNECTED and the result is what disconnect() returned, None when it
\* raised.
\* Variant: the exception of disconnect() is not caught.
connection_lost_uncaught(st, cfg, o, before) ==
    LET ops == before \o << Prim("disconnect", o.disc) >>
    IN  IF o.disc # OK
        THEN Raise(o.disc, ops, cfg)
        ELSE IF o.lis = OK
        THEN Ret(DISCONNECTED, RetOf("disconnect"), ops \o << Notify(LOST_CONNECTION, st) >>, cfg)
        ELSE Raise(ListenerException, ops \o << Notify(LOST_CONNECTION, st) >>, cfg)

\* Variant: the agent is notified first, disconnect() is attempted after.
connection_lost_notifies_first(st, cfg, o, before) ==
    LET result == IF o.disc = OK THEN RetOf("disconnect") ELSE None
    IN  IF o.lis = OK
        THEN Ret(DISCONNECTED, result,
                 before \o << Notify(LOST_CONNECTION, st), Prim("disconnect", o.disc) >>, cfg)
        ELSE Raise(ListenerException, before \o << Notify(LOST_CONNECTION, st) >>, cfg)

\* Variant: the agent is notified inside the try, after disconnect().
connection_lost_notifies_in_try(st, cfg, o, before) ==
    LET ops == before \o << Prim("disconnect", o.disc) >>
    IN  IF o.disc # OK
        THEN Ret(DISCONNECTED, None, ops, cfg)
        ELSE IF o.lis = OK
        THEN Ret(DISCONNECTED, RetOf("disconnect"), ops \o << Notify(LOST_CONNECTION, st) >>, cfg)
        ELSE Ret(DISCONNECTED, None, ops \o << Notify(LOST_CONNECTION, st) >>, cfg)

\* Variant: the result of disconnect() is dropped, None is returned.
connection_lost_result_dropped(st, cfg, o, before) ==
    LET ops == before \o << Prim("disconnect", o.disc), Notify(LOST_CONNECTION, st) >>
    IN  IF o.lis = OK
        THEN Ret(DISCONNECTED, None, ops, cfg)
        ELSE Raise(ListenerException, ops, cfg)

\* Variant: the state is forced to DISCONNECTED before the agent is notified.
connection_lost_notifies_when_disconnected(st, cfg, o, before) ==
    LET result == IF o.disc = OK THEN RetOf("disconnect") ELSE None
        ops == before \o << Prim("disconnect", o.disc),
                            Notify(LOST_CONNECTION, DISCONNECTED) >>
    IN  IF o.lis = OK
        THEN Ret(DISCONNECTED, result, ops, cfg)
        ELSE Raise(ListenerException, ops, cfg)

connection_lost(st, cfg, o, before) ==
    LET result == IF o.disc = OK THEN RetOf("disconnect") ELSE None
        ops == before \o << Prim("disconnect", o.disc), Notify(LOST_CONNECTION, st) >>
    IN  IF o.lis = OK
        THEN Ret(DISCONNECTED, result, ops, cfg)
        ELSE Raise(ListenerException, ops, cfg)

\* -------------------------------------------------------------- configure

\* Variant: the validated configuration is not assigned.
configure_not_stored(config, cfg, o) ==
    IF o.prim = OK
    THEN Ret(None, None, << Prim("validate_driver_configuration", OK) >>, cfg)
    ELSE Raise(o.prim, << Prim("validate_driver_configuration", o.prim) >>, cfg)

\* Variant: the configuration is assigned first and validated after.
configure_stores_first(config, cfg, o) ==
    IF o.prim = OK
    THEN Ret(None, None, << Prim("validate_driver_configuration", OK) >>, config)
    ELSE Raise(o.prim, << Prim("validate_driver_configuration", o.prim) >>, config)

\* validate_driver_configuration, then self._driver_config = driver_config.
configure(config, cfg, o) ==
    IF o.prim = OK
    THEN Ret(None, None, << Prim("validate_driver_configuration", OK) >>, config)
    ELSE Raise(o.prim, << Prim("validate_driver_configuration", o.prim) >>, cfg)

\* ---------------------------------------------------------- FSM handlers

\* Variant: the PlatformDriverException of configure is not caught.
handler_unconfigured_configure_uncaught(kw, st, cfg, o) ==
    IF kw.driver_config = None
    THEN Raise(FSMError, << >>, cfg)
    ELSE LET c == configure(kw.driver_config, cfg, o)
         IN  IF c.raised = None
             THEN Ret(DISCONNECTED, c.result, c.ops, c.config)
             ELSE c

handler_unconfigured_configure(kw, st, cfg, o) ==
    IF kw.driver_config = None
    THEN Raise(FSMError, << >>, cfg)
    ELSE LET c == configure(kw.driver_config, cfg, o)
         IN  CASE c.raised = None -> Ret(DISCONNECTED, c.result, c.ops, c.config)
               [] c.raised = PlatformDriverException -> Ret(None, None, c.ops, c.config)
               [] OTHER -> c

\* Variant: a connection fault of connect() is caught and leads to the
\* recovery, like the one of a command.
handler_disconnected_connect_recovers(kw, st, cfg, o) ==
    CASE o.prim = OK -> Ret(CONNECTED, CONNECTED, << Prim("connect", OK) >>, cfg)
      [] o.prim = PlatformConnectionException ->
           connection_lost(st, cfg, o, << Prim("connect", o.prim) >>)
      [] OTHER -> Raise(o.prim, << Prim("connect", o.prim) >>, cfg)

handler_disconnected_connect(kw, st, cfg, o) ==
    IF o.prim = OK
    THEN Ret(CONNECTED, CONNECTED, << Prim("connect", OK) >>, cfg)
    ELSE Raise(o.prim, << Prim("connect", o.prim) >>, cfg)

\* Variant: DISCONNECT in DISCONNECTED disconnects like the CONNECTED one.
handler_disconnected_disconnect_disconnects(kw, st, cfg, o) ==
    Ret(None, RetOf("disconnect"), << Prim("disconnect", OK) >>, cfg)

handler_disconnected_disconnect(kw, st, cfg, o) ==
    Ret(None, None, << >>, cfg)

handler_connected_disconnect(kw, st, cfg, o) ==
    IF o.prim = OK
    THEN Ret(DISCONNECTED, RetOf("disconnect"), << Prim("disconnect", OK) >>, cfg)
    ELSE Raise(o.prim, << Prim("disconnect", o.prim) >>, cfg)

\* Variant: the recovery leaves the next state open.
handler_connected_connection_lost_stays(kw, st, cfg, o) ==
    [connection_lost(st, cfg, o, << >>) EXCEPT !.next_state = None]

\* Variant: the explicit event disconnects and notifies nothing.
handler_connected_connection_lost_silent(kw, st, cfg, o) ==
    Ret(DISCONNECTED, IF o.disc = OK THEN RetOf("disconnect") ELSE None,
        << Prim("disconnect", o.disc) >>, cfg)

handler_connected_connection_lost(kw, st, cfg, o) ==
    connection_lost(st, cfg, o, << >>)

\* Variant: the PlatformConnectionException of the primitive is not caught.
command_uncaught(name, st, cfg, o) ==
    IF o.prim = OK
    THEN Ret(None, RetOf(name), << Prim(name, OK) >>, cfg)
    ELSE Raise(o.prim, << Prim(name, o.prim) >>, cfg)

\* Variant: every exception of the primitive leads to _connection_lost.
command_catches_all(name, st, cfg, o) ==
    IF o.prim = OK
    THEN Ret(None, RetOf(name), << Prim(name, OK) >>, cfg)
    ELSE connection_lost(st, cfg, o, << Prim(name, o.prim) >>)

\* Variant: the value the primitive returned is dropped.
command_result_dropped(name, st, cfg, o) ==
    CASE o.prim = OK -> Ret(None, None, << Prim(name, OK) >>, cfg)
      [] o.prim = PlatformConnectionException ->
           connection_lost(st, cfg, o, << Prim(name, o.prim) >>)
      [] OTHER -> Raise(o.prim, << Prim(name, o.prim) >>, cfg)

\* The shape shared by the PING, GET, SET and EXECUTE handlers: the primitive
\* is tried, a PlatformConnectionException leads to _connection_lost, any
\* other exception is not caught.
command(name, st, cfg, o) ==
    CASE o.prim = OK -> Ret(None, RetOf(name), << Prim(name, OK) >>, cfg)
      [] o.prim = PlatformConnectionException ->
           connection_lost(st, cfg, o, << Prim(name, o.prim) >>)
      [] OTHER -> Raise(o.prim, << Prim(name, o.prim) >>, cfg)

handler_connected_ping(kw, st, cfg, o) ==
    command("ping", st, cfg, o)

handler_connected_get(kw, st, cfg, o) ==
    command("get", st, cfg, o)

\* Variant: the attrs argument is not checked.
handler_connected_set_unchecked(kw, st, cfg, o) ==
    command("set_attribute_values", st, cfg, o)

handler_connected_set(kw, st, cfg, o) ==
    IF ~kw.has_attrs
    THEN Raise(FSMError, << >>, cfg)
    ELSE command("set_attribute_values", st, cfg, o)

\* Variant: the positional arguments are not counted.
handler_connected_execute_unchecked(kw, st, cfg, o) ==
    command("execute", st, cfg, o)

handler_connected_execute(kw, st, cfg, o) ==
    IF kw.nargs = 0
    THEN Raise(FSMError, << >>, cfg)
    ELSE command("execute", st, cfg, o)

\* Variant: entering a state is logged only.
common_state_enter_logs_only(st) ==
    << Hook(ENTER, st) >>

\* _common_state_enter: StateChangeDriverEvent(get_driver_state()).
common_state_enter(st) ==
    << Hook(ENTER, st), Notify(st, st) >>

\* Variant: the exit hook notifies the listener of the state being left.
common_state_exit_notifies(st) ==
    << Hook(EXIT, st), Notify(st, st) >>

\* _common_state_exit: nothing done in this base class.
common_state_exit(st) ==
    << Hook(EXIT, st) >>

\* ------------------------------------------------------- _construct_fsm

\* Variant: the driver is built on the engine without the lock.
fsm_not_thread_safe == FALSE

\* The engine the driver is built on: ThreadSafeFSM serialises on_event.
fsm_is_thread_safe == TRUE

\* Variant: CONFIGURE is handled in DISCONNECTED as well.
state_handlers_reconfigurable(s, e) ==
    CASE e = ENTER -> "_common_state_enter"
      [] e = EXIT -> "_common_state_exit"
      [] s \in {UNCONFIGURED, DISCONNECTED} /\ e = CONFIGURE -> "_handler_unconfigured_configure"
      [] s = DISCONNECTED /\ e = CONNECT -> "_handler_disconnected_connect"
      [] s = DISCONNECTED /\ e = DISCONNECT -> "_handler_disconnected_disconnect"
      [] s = CONNECTED /\ e = DISCONNECT -> "_handler_connected_disconnect"
      [] s = CONNECTED /\ e = CONNECTION_LOST -> "_handler_connected_connection_lost"
      [] s = CONNECTED /\ e = PING -> "_handler_connected_ping"
      [] s = CONNECTED /\ e = GET -> "_handler_connected_get"
      [] s = CONNECTED /\ e = SET -> "_handler_connected_set"
      [] s = CONNECTED /\ e = EXECUTE -> "_handler_connected_execute"
      [] OTHER -> None

\* Variant: the command handlers are registered for DISCONNECTED as well.
state_handlers_commands_when_disconnected(s, e) ==
    CASE e = ENTER -> "_common_state_enter"
      [] e = EXIT -> "_common_state_exit"
      [] s = UNCONFIGURED /\ e = CONFIGURE -> "_handler_unconfigured_configure"
      [] s = DISCONNECTED /\ e = CONNECT -> "_handler_disconnected_connect"
      [] s = DISCONNECTED /\ e = DISCONNECT -> "_handler_disconnected_disconnect"
      [] s = CONNECTED /\ e = DISCONNECT -> "_handler_connected_disconnect"
      [] s = CONNECTED /\ e = CONNECTION_LOST -> "_handler_connected_connection_lost"
      [] s \in {CONNECTED, DISCONNECTED} /\ e = PING -> "_handler_connected_ping"
      [] s \in {CONNECTED, DISCONNECTED} /\ e = GET -> "_handler_connected_get"
      [] s \in {CONNECTED, DISCONNECTED} /\ e = SET -> "_handler_connected_set"
      [] s \in {CONNECTED, DISCONNECTED} /\ e = EXECUTE -> "_handler_connected_execute"
      [] OTHER -> None

\* Variant: CONNECT is handled in UNCONFIGURED as well.
state_handlers_connect_when_unconfigured(s, e) ==
    CASE e = ENTER -> "_common_state_enter"
      [] e = EXIT -> "_common_state_exit"
      [] s = UNCONFIGURED /\ e = CONFIGURE -> "_handler_unconfigured_configure"
      [] s \in {UNCONFIGURED, DISCONNECTED} /\ e = CONNECT -> "_handler_disconnected_connect"
      [] s = DISCONNECTED /\ e = DISCONNECT -> "_handler_disconnected_disconnect"
      [] s = CONNECTED /\ e = DISCONNECT -> "_handler_connected_disconnect"
      [] s = CONNECTED /\ e = CONNECTION_LOST -> "_handler_connected_connection_lost"
      [] s = CONNECTED /\ e = PING -> "_handler_connected_ping"
      [] s = CONNECTED /\ e = GET -> "_handler_connected_get"
      [] s = CONNECTED /\ e = SET -> "_handler_connected_set"
      [] s = CONNECTED /\ e = EXECUTE -> "_handler_connected_execute"
      [] OTHER -> None

\* Variant: CONNECTION_LOST is handled in DISCONNECTED as well.
state_handlers_loss_when_disconnected(s, e) ==
    CASE e = ENTER -> "_common_state_enter"
      [] e = EXIT -> "_common_state_exit"
      [] s = UNCONFIGURED /\ e = CONFIGURE -> "_handler_unconfigured_configure"
      [] s = DISCONNECTED /\ e = CONNECT -> "_handler_disconnected_connect"
      [] s = DISCONNECTED /\ e = DISCONNECT -> "_handler_disconnected_disconnect"
      [] s = CONNECTED /\ e = DISCONNECT -> "_handler_connected_disconnect"
      [] s \in {CONNECTED, DISCONNECTED} /\ e = CONNECTION_LOST ->
           "_handler_connected_connection_lost"
      [] s = CONNECTED /\ e = PING -> "_handler_connected_ping"
      [] s = CONNECTED /\ e = GET -> "_handler_connected_get"
      [] s = CONNECTED /\ e = SET -> "_handler_connected_set"
      [] s = CONNECTED /\ e = EXECUTE -> "_handler_connected_execute"
      [] OTHER -> None

\* Variant: DISCONNECT is not handled in DISCONNECTED.
state_handlers_disconnect_when_connected_only(s, e) ==
    CASE e = ENTER -> "_common_state_enter"
      [] e = EXIT -> "_common_state_exit"
      [] s = UNCONFIGURED /\ e = CONFIGURE -> "_handler_unconfigured_configure"
      [] s = DISCONNECTED /\ e = CONNECT -> "_handler_disconnected_connect"
      [] s = CONNECTED /\ e = DISCONNECT -> "_handler_connected_disconnect"
      [] s = CONNECTED /\ e = CONNECTION_LOST -> "_handler_connected_connection_lost"
      [] s = CONNECTED /\ e = PING -> "_handler_connected_ping"
      [] s = CONNECTED /\ e = GET -> "_handler_connected_get"
      [] s = CONNECTED /\ e = SET -> "_handler_connected_set"
      [] s = CONNECTED /\ e = EXECUTE -> "_handler_connected_execute"
      [] OTHER -> None

\* The handler registered for (state, event), None when there is none.
state_handlers(s, e) ==
    CASE e = ENTER -> "_common_state_enter"
      [] e = EXIT -> "_common_state_exit"
      [] s = UNCONFIGURED /\ e = CONFIGURE -> "_handler_unconfigured_configure"
      [] s = DISCONNECTED /\ e = CONNECT -> "_handler_disconnected_connect"
      [] s = DISCONNECTED /\ e = DISCONNECT -> "_handler_disconnected_disconnect"
      [] s = CONNECTED /\ e = DISCONNECT -> "_handler_connected_disconnect"
      [] s = CONNECTED /\ e = CONNECTION_LOST -> "_handler_connected_connection_lost"
      [] s = CONNECTED /\ e = PING -> "_handler_connected_ping"
      [] s = CONNECTED /\ e = GET -> "_handler_connected_get"
      [] s = CONNECTED /\ e = SET -> "_handler_connected_set"
      [] s = CONNECTED /\ e = EXECUTE -> "_handler_connected_execute"
      [] OTHER -> None

\* Running the handler registered under a name.
Run(h, kw, st, cfg, o) ==
    CASE h = "_handler_unconfigured_configure" -> handler_unconfigured_configure(kw, st, cfg, o)
      [] h = "_handler_disconnected_connect" -> handler_disconnected_connect(kw, st, cfg, o)
      [] h = "_handler_disconnected_disconnect" -> handler_disconnected_disconnect(kw, st, cfg, o)
      [] h = "_handler_connected_disconnect" -> handler_connected_disconnect(kw, st, cfg, o)
      [] h = "_handler_connected_connection_lost" -> handler_connected_connection_lost(kw, st, cfg, o)
      [] h = "_handler_connected_ping" -> handler_connected_ping(kw, st, cfg, o)
      [] h = "_handler_connected_get" -> handler_connected_get(kw, st, cfg, o)
      [] h = "_handler_connected_set" -> handler_connected_set(kw, st, cfg, o)
      [] h = "_handler_connected_execute" -> handler_connected_execute(kw, st, cfg, o)

\* The outcomes the outside can produce during a handler: those of the
\* primitive (or hook) the handler invokes and, when the recovery runs, those
\* of its disconnect() and of the listener. What is not invoked has no outcome
\* (written OK).
Recovers(h, o) ==
    \/ h = "_handler_connected_connection_lost"
    \/ /\ h \in {"_handler_connected_ping", "_handler_connected_get",
                 "_handler_connected_set", "_handler_connected_execute"}
       /\ o.prim = PlatformConnectionException

EnvsFor(h) ==
    {o \in Envs :
        /\ o.prim \in (CASE h = "_handler_unconfigured_configure" -> ValidationOutcomes
                         [] h = "_handler_connected_connection_lost" -> {OK}
                         [] h = "_handler_disconnected_disconnect" -> {OK}
                         [] OTHER -> PrimitiveOutcomes)
        /\ ~Recovers(h, o) => (o.disc = OK /\ o.lis = OK)}

\* ------------------------------------------------------------- bookkeeping

\* The notifications among the steps of a call, as the listener receives
\* them: what is notified and the state of the engine at that moment.
RECURSIVE Delivered(_)
Delivered(ops) ==
    IF ops = << >>
    THEN << >>
    ELSE (IF Head(ops).k = "notify"
          THEN << [a |-> Head(ops).a, b |-> Head(ops).b] >>
          ELSE << >>) \o Delivered(Tail(ops))

CommandPrimitives == {"ping", "get", "set_attribute_values", "execute"}

\* A loss of the connection is detected by a call: the CONNECTION_LOST event
\* is handled, or the primitive of a command raised a connection fault.
DetectsLoss(e, ops) ==
    \/ e = CONNECTION_LOST
    \/ \E i \in DOMAIN ops :
          /\ ops[i].k = "prim"
          /\ ops[i].a \in CommandPrimitives
          /\ ops[i].b = PlatformConnectionException

ConnectSucceeded(ops) ==
    \E i \in DOMAIN ops : ops[i] = Prim("connect", OK)

\* What followed the most recent detected loss: its notification was taken
\* by the listener, or the listener raised. No loss is pending before the
\* first loss and once a connect() has succeeded after the last one.
NO_LOSS == "no_loss_pending"
LOSS_NOTIFIED == "loss_notified"
LOSS_NOTIFY_RAISED == "loss_notify_raised"

AfterLoss(prev, e, r) ==
    IF DetectsLoss(e, r.ops)
    THEN (IF r.raised = ListenerException THEN LOSS_NOTIFY_RAISED ELSE LOSS_NOTIFIED)
    ELSE IF ConnectSucceeded(r.ops) THEN NO_LOSS
    ELSE prev

\* The completed calls applied one after another: a call that was dispatched
\* in the state its predecessors left moves that state as its handler said.
Diverged == "diverged"

SerialAfter(c, next) ==
    IF c.from = serial THEN next ELSE Diverged

\* ------------------------------------------------------ driver instances

\* Two drivers constructed in one process, each with its own listener.
Instances == {"driver_1", "driver_2"}

\* The attributes __init__ and _construct_fsm assign and the handlers use.
Attributes == {"_fsm.current_state", "_driver_config", "_send_event"}

Cells == Instances \X Attributes

\* Variant: the attributes are those of the class, one cell for all instances.
self_of_class(d, attr) ==
    << "driver_1", attr >>

\* self.<attr>: the attributes are assigned on the instance.
self(d, attr) ==
    << d, attr >>

\* What __init__ leaves in an attribute of an instance: the callback it was
\* given, no configuration, an engine started in UNCONFIGURED.
Constructed(c) ==
    CASE c[2] = "_send_event" -> c[1]
      [] c[2] = "_driver_config" -> None
      [] c[2] = "_fsm.current_state" -> UNCONFIGURED

NotDispatched ==
    [to |-> None, event |-> None, outcome |-> None]

\* ------------------------------------------------ get_resource_capabilities

\* class PlatformDriverCapability(BaseEnum): pass. The capabilities to expose
\* are indicated by subclasses; this class has no member.
PlatformDriverCapability == {}

\* The engine's get_events: the events with a handler registered for the
\* current state, or for any state when current is FALSE (lists without
\* repetition, kept as sets).
get_events(st, current) ==
    IF current
    THEN {e \in PlatformDriverEvent : state_handlers(st, e) # None}
    ELSE {e \in PlatformDriverEvent :
             \E s \in PlatformDriverState : state_handlers(s, e) # None}

\* Variant: the events are passed on as they are.
filter_capabilities_keeps_all(events) ==
    events

\* [x for x in events if PlatformDriverCapability.has(x)]
filter_capabilities(events) ==
    {x \in events : x \in PlatformDriverCapability}

\* Variant: the events of the current state are returned without filtering.
get_resource_capabilities_raw_when_current(st, current) ==
    [res_cmds |-> IF current
                  THEN get_events(st, current)
                  ELSE filter_capabilities(get_events(st, current)),
     res_params |-> {}]

\* [res_cmds, res_params], the parameter dictionary being empty.
get_resource_capabilities(st, current) ==
    [res_cmds |-> filter_capabilities(get_events(st, current)),
     res_params |-> {}]

\* No get_resource_capabilities call was made yet (no state was read).
NoCaps ==
    [current |-> FALSE, state |-> None, events |-> {}, res_cmds |-> {},
     res_params |-> {}]

\* ------------------------------------------- user notification service
\* ion/services/dm/presentation/user_notification_service.py. The resource
\* registry and the event bus are used through their clients: create assigns
\* the next id, read and delete fail with NotFound for an id that is not
\* persisted, update replaces what is persisted, publish_event delivers to
\* whoever subscribed.

BadRequest == "BadRequest"
NotFound == "NotFound"
KeyError == "KeyError"
AttributeError == "AttributeError"

Users == {"user_1", "user_2"}

\* The user_id argument: a user, or the default ''.
UserIds == Users \cup {""}

\* Identifiers the registry assigns; 0 stands for an _id that is ''.
NotificationIds == 1..MaxPublished

\* NotificationType
EMAIL == "EMAIL"
FILTER == "FILTER"
NotificationTypes == {EMAIL, FILTER, "OTHER_TYPE"}

\* A NotificationRequest as it is passed in, here an email notification for
\* the events of one origin: given tells a request object from None and from
\* an object without _id or _rev, id is its _id.
AnyRequest ==
    [given |-> "request", id |-> 0,
     origin |-> "origin_a", origin_type |-> "origin_type_a",
     event_type |-> "event_type_a", event_subtype |-> "event_subtype_a",
     delivery_config |-> "delivery_1", type |-> EMAIL]

\* The requests create_notification is called with: not persisted yet, all
\* for the same events of the same origin, of each type.
NewRequests ==
    {[AnyRequest EXCEPT !.type = t] : t \in NotificationTypes}

\* The requests update_notification is called with: for each id, the request
\* above with no field, one field or two fields changed.
UpdateRequests ==
    {[n EXCEPT !.id = i] :
        i \in {0} \cup NotificationIds,
        n \in {AnyRequest,
               [AnyRequest EXCEPT !.origin = "origin_b"],
               [AnyRequest EXCEPT !.origin_type = "origin_type_b"],
               [AnyRequest EXCEPT !.event_type = "event_type_b"],
               [AnyRequest EXCEPT !.event_subtype = "event_subtype_b"],
               [AnyRequest EXCEPT !.delivery_config = "delivery_2"],
               [AnyRequest EXCEPT !.type = FILTER],
               [AnyRequest EXCEPT !.delivery_config = "delivery_2",
                                  !.event_type = "event_type_b"]}}

\* notification=None, and an object that has no _id or no _rev.
MalformedRequests ==
    {[AnyRequest EXCEPT !.given = g] : g \in {"None", "no_id_or_rev"}}

NoCall ==
    [op |-> None, user_id |-> "", notification |-> AnyRequest,
     notification_id |-> 0, outcome |-> None]

\* on_start: self.event_processors = {}; the registry holds the users and no
\* notification.
on_start ==
    /\ rr_notifications = {}
    /\ rr_created = 0
    /\ rr_users = [u \in Users |-> {}]
    /\ event_processors = {}
    /\ subscribers = [i \in NotificationIds |-> "none"]
    /\ published = << >>
    /\ uns_last = NoCall

\* resource_registry.read(notification_id): the persisted ones with that id.
Persisted(id) == {n \in rr_notifications : n.id = id}

\* The ReloadUserInfoEvent published for a notification, with what the
\* registry holds at that moment: whether the notification is persisted and
\* whether a user's record lists it.
ReloadUserInfoEvent(description, id, persisted, listed) ==
    [description |-> description, notification_id |-> id,
     persisted |-> persisted, listed |-> listed]

\* Variant: any type gets an event processor.
create_event_processor_of_any_type(n) ==
    TRUE

\* create_event_processor: EmailEventProcessor or DetectionEventProcessor,
\* BadRequest('Invalid Notification Request Type!') for another type.
create_event_processor(n) ==
    n.type \in {EMAIL, FILTER}

\* create_notification(notification, user_id), to the return or the raise.
CreateNotification(n, user_id) ==
    /\ Len(published) < MaxPublished
    /\ IF user_id = ""
       THEN /\ uns_last' = [op |-> "create", user_id |-> user_id, notification |-> n,
                            notification_id |-> 0, outcome |-> BadRequest]
            /\ UNCHANGED << rr_notifications, rr_created, rr_users,
                            event_processors, subscribers, published >>
       ELSE LET id == rr_created + 1
                made == create_event_processor(n)
            IN  /\ rr_created' = id
                /\ rr_notifications' = rr_notifications \cup {[n EXCEPT !.id = id]}
                /\ published' = Append(published,
                      ReloadUserInfoEvent("A notification has been created.", id,
                                          TRUE, \E u \in Users : id \in rr_users[u]))
                /\ rr_users' = [rr_users EXCEPT ![user_id] = @ \cup {id}]
                /\ subscribers' = IF made
                                  THEN [subscribers EXCEPT ![id] = "active"]
                                  ELSE subscribers
                /\ event_processors' =
                      IF made
                      THEN {p \in event_processors : p.user_id # user_id}
                              \cup {[user_id |-> user_id, res_obj |-> n, subscriber |-> id]}
                      ELSE event_processors
                /\ uns_last' = [op |-> "create", user_id |-> user_id, notification |-> n,
                                notification_id |-> id,
                                outcome |-> IF made THEN RETURNED ELSE BadRequest]
    /\ UNCHANGED << driver_vars, cap_vars, inst_vars >>

\* Variant: the event type is not compared.
subscription_differs_but_event_type(n, old) ==
    \/ n.origin # old.origin
    \/ n.origin_type # old.origin_type
    \/ n.event_subtype # old.event_subtype

\* The check of update_notification: the new notification differs from the
\* persisted one in origin, origin_type, event_type or event_subtype.
subscription_differs(n, old) ==
    \/ n.origin # old.origin
    \/ n.origin_type # old.origin_type
    \/ n.event_type # old.event_type
    \/ n.event_subtype # old.event_subtype

\* update_notification(notification, user_id), to the return or the raise.
UpdateNotification(n, user_id) ==
    LET ends(outcome) ==
            uns_last' = [op |-> "update", user_id |-> user_id, notification |-> n,
                         notification_id |-> n.id, outcome |-> outcome]
        nothing == UNCHANGED << rr_notifications, rr_created, rr_users,
                                event_processors, subscribers, published >>
    IN  /\ IF n.given # "request" \/ n.id = 0
           THEN ends(BadRequest) /\ nothing
           ELSE IF Persisted(n.id) = {}
           THEN ends(NotFound) /\ nothing
           ELSE IF \E old \in Persisted(n.id) : subscription_differs(n, old)
           THEN ends(BadRequest) /\ nothing
           ELSE IF \A p \in event_processors : p.user_id # user_id
           THEN ends(KeyError) /\ nothing
           ELSE /\ Len(published) < MaxPublished
                /\ event_processors' =
                      {IF p.user_id = user_id THEN [p EXCEPT !.res_obj = n] ELSE p :
                          p \in event_processors}
                /\ rr_notifications' = (rr_notifications \ Persisted(n.id)) \cup {n}
                /\ published' = Append(published,
                      ReloadUserInfoEvent("A notification has been updated.", n.id,
                                          TRUE, \E u \in Users : n.id \in rr_users[u]))
                /\ ends(RETURNED)
                /\ UNCHANGED << rr_created, rr_users, subscribers >>
        /\ UNCHANGED << driver_vars, cap_vars, inst_vars >>

\* Variant: the loop looks at the notification each processor holds, stops
\* its subscriber and forgets the processor.
delete_loop_removes_processor(id) ==
    [raised |-> None,
     event_processors |-> {p \in event_processors : p.subscriber # id},
     subscribers |-> [i \in NotificationIds |->
                        IF i = id /\ \E p \in event_processors : p.subscriber = id
                        THEN "stopped" ELSE subscribers[i]]]

\* The loop of delete_notification over event_processors.iteritems(): its
\* values are the event processors, and an event processor has no _res_obj
\* (its SubscribedNotification has), so the test of the first processor
\* raises AttributeError and nothing is removed.
delete_loop(id) ==
    [raised |-> IF event_processors = {} THEN None ELSE AttributeError,
     event_processors |-> event_processors,
     subscribers |-> subscribers]

\* delete_notification(notification_id), to the return or the raise.
DeleteNotification(id) ==
    LET loop == delete_loop(id)
        ends(outcome) ==
            uns_last' = [op |-> "delete", user_id |-> "", notification |-> AnyRequest,
                         notification_id |-> id, outcome |-> outcome]
    IN  /\ event_processors' = loop.event_processors
        /\ subscribers' = loop.subscribers
        /\ IF loop.raised # None
           THEN ends(loop.raised) /\ UNCHANGED << rr_notifications, published >>
           ELSE IF Persisted(id) = {}
           THEN ends(NotFound) /\ UNCHANGED << rr_notifications, published >>
           ELSE /\ Len(published) < MaxPublished
                /\ rr_notifications' = rr_notifications \ Persisted(id)
                /\ published' = Append(published,
                      ReloadUserInfoEvent("A notification has been deleted.", id,
                                          FALSE, \E u \in Users : id \in rr_users[u]))
                /\ ends(RETURNED)
        /\ UNCHANGED << rr_created, rr_users >>
        /\ UNCHANGED << driver_vars, cap_vars, inst_vars >>

\* The service takes calls until the container quits it.
Serving == uns_last.op # "quit"

\* The loop of on_quit: processor.remove_notification(), which is
\* subscribed_notification.deactivate(), for each of
\* self.event_processors.itervalues().
on_quit ==
    [i \in NotificationIds |->
        IF \E p \in event_processors : p.subscriber = i
        THEN "stopped" ELSE subscribers[i]]

\* on_quit(), to the return.
OnQuit ==
    /\ Serving
    /\ subscribers' = on_quit
    /\ uns_last' = [op |-> "quit", user_id |-> "", notification |-> AnyRequest,
                    notification_id |-> 0, outcome |-> RETURNED]
    /\ UNCHANGED << rr_notifications, rr_created, rr_users, event_processors,
                    published >>
    /\ UNCHANGED << driver_vars, cap_vars, inst_vars >>

\* ---------------------------------------------------------------- on_event

\* Variant: the lock is released when on_event returns normally only; a call
\* that ends with an exception keeps it.
Ends_lock_kept_on_exception(t, c, next, st, cfg) ==
    /\ last' = [c EXCEPT !.pc = "done", !.end = st, !.config = cfg]
    /\ call' = [call EXCEPT ![t] = Idle]
    /\ serial' = SerialAfter(c, next)
    /\ lock' = IF lock = t /\ c.outcome = RETURNED THEN 0 ELSE lock

\* on_event returns or raises: the lock is released and the caller goes on.
\* c is the call as it ends, next the state the call leaves when applied to
\* the state it was dispatched in, st and cfg the state of the engine and
\* the stored configuration as it ends.
Ends(t, c, next, st, cfg) ==
    /\ last' = [c EXCEPT !.pc = "done", !.end = st, !.config = cfg]
    /\ call' = [call EXCEPT ![t] = Idle]
    /\ serial' = SerialAfter(c, next)
    /\ lock' = IF lock = t THEN 0 ELSE lock

Init ==
    /\ current_state = UNCONFIGURED
    /\ driver_config = None
    /\ lock = 0
    /\ call = [t \in Callers |-> Idle]
    /\ last = Idle
    /\ sent = << >>
    /\ serial = UNCONFIGURED
    /\ detected = 0
    /\ after_loss = NO_LOSS
    /\ caps = NoCaps
    /\ store = [c \in Cells |-> Constructed(c)]
    /\ received = [d \in Instances |-> << >>]
    /\ dispatched = NotDispatched
    /\ on_start

\* A caller enters on_event(event, *args, **kwargs) and waits for the lock.
Call(t) ==
    /\ call[t].pc = "idle"
    /\ Len(sent) < MaxSent
    /\ call' = [call EXCEPT ![t].pc = "waiting"]
    /\ UNCHANGED << current_state, driver_config, lock, last, sent, serial,
                    detected, after_loss >>
    /\ UNCHANGED outside_on_event

\* with self._lock: the call goes on once no other call holds the lock. The
\* event and the arguments of a waiting call are read by nothing before the
\* call holds the lock: they are drawn here.
Acquire(t) ==
    /\ call[t].pc = "waiting"
    /\ fsm_is_thread_safe => lock = 0
    /\ lock' = IF fsm_is_thread_safe THEN t ELSE lock
    /\ \E e \in CallerEvents : \E kw \in ArgsOf(e) :
          call' = [call EXCEPT ![t].pc = "locked", ![t].event = e, ![t].kw = kw]
    /\ UNCHANGED << current_state, driver_config, last, sent, serial, detected,
                    after_loss >>
    /\ UNCHANGED outside_on_event

\* The handler of (current state, event) is looked up and run. Without a
\* handler the call fails; a handler that raises ends the call; a handler
\* that names no next state ends it with its result.
Handle(t) ==
    /\ call[t].pc = "locked"
    /\ UNCHANGED outside_on_event
    /\ LET c == call[t]
           h == state_handlers(current_state, c.event)
       IN  IF h = None
           THEN /\ Ends(t, [c EXCEPT !.from = current_state, !.outcome = FSMStateError],
                        current_state, current_state, driver_config)
                /\ UNCHANGED << current_state, driver_config, sent, detected,
                                after_loss >>
           ELSE \E o \in EnvsFor(h) :
                LET r == Run(h, c.kw, current_state, driver_config, o)
                    c1 == [c EXCEPT !.from = current_state, !.ops = r.ops]
                    lost == DetectsLoss(c.event, r.ops)
                IN  /\ driver_config' = r.config
                    /\ sent' = sent \o Delivered(r.ops)
                    /\ detected' = IF lost THEN detected + 1 ELSE detected
                    /\ after_loss' = AfterLoss(after_loss, c.event, r)
                    /\ UNCHANGED current_state
                    /\ IF r.raised # None
                       THEN Ends(t, [c1 EXCEPT !.outcome = r.raised],
                                 current_state, current_state, r.config)
                       ELSE IF r.next_state \notin PlatformDriverState
                       THEN Ends(t, [c1 EXCEPT !.outcome = RETURNED, !.result = r.result],
                                 current_state, current_state, r.config)
                       ELSE /\ call' = [call EXCEPT ![t] =
                                   [c1 EXCEPT !.pc = "transition",
                                              !.next_state = r.next_state,
                                              !.result = r.result]]
                            /\ UNCHANGED << last, serial, lock >>

\* Variant: when the ENTER handler raises, the state is set back to the one
\* the transition left.
Transition_rolled_back(t) ==
    /\ call[t].pc = "transition"
    /\ \E lis \in ListenerOutcomes :
          LET c == call[t]
              new == c.next_state
              ops == common_state_exit(current_state)
                       \o << [k |-> "state", a |-> new, b |-> current_state] >>
                       \o common_state_enter(new)
              st == IF lis = OK THEN new ELSE current_state
          IN  /\ current_state' = st
              /\ sent' = sent \o Delivered(ops)
              /\ Ends(t, [c EXCEPT !.ops = c.ops \o ops,
                                   !.outcome = IF lis = OK THEN RETURNED ELSE ListenerException,
                                   !.result = IF lis = OK THEN c.result ELSE None],
                      st, st, driver_config)
    /\ UNCHANGED << driver_config, detected, after_loss >>
    /\ UNCHANGED outside_on_event

\* The transition to the handler's next state: the EXIT handler of the old
\* state, the change of state, the ENTER handler of the new state, whose
\* notification the listener may answer by raising.
Transition(t) ==
    /\ call[t].pc = "transition"
    /\ \E lis \in ListenerOutcomes :
          LET c == call[t]
              new == c.next_state
              ops == common_state_exit(current_state)
                       \o << [k |-> "state", a |-> new, b |-> current_state] >>
                       \o common_state_enter(new)
          IN  /\ current_state' = new
              /\ sent' = sent \o Delivered(ops)
              /\ Ends(t, [c EXCEPT !.ops = c.ops \o ops,
                                   !.outcome = IF lis = OK THEN RETURNED ELSE ListenerException,
                                   !.result = IF lis = OK THEN c.result ELSE None],
                      new, new, driver_config)
    /\ UNCHANGED << driver_config, detected, after_loss >>
    /\ UNCHANGED outside_on_event

Next ==
    \E t \in Callers :
        \/ Call(t)
        \/ Acquire(t)
        \/ Handle(t)
        \/ Transition(t)

Spec == Init /\ [][Next]_vars

\* The same callers, with what the termination of a call rests on: every
\* handler and every transition comes to its end (the primitives and the
\* listener callback return or raise, none hangs), and the engine's lock is
\* granted fairly (a caller that finds the lock free again and again gets it).
Fairness ==
    \A t \in Callers :
        /\ WF_vars(Handle(t))
        /\ WF_vars(Transition(t))
        /\ SF_vars(Acquire(t))

LiveSpec == Init /\ [][Next]_vars /\ Fairness

\* ----------------------------------------------- two drivers side by side

\* on_event(event, ...) of instance d, from the lookup of the handler to the
\* end of the transition: the instance's engine serialises the calls it gets.
OnEvent(d, e, kw) ==
    LET st == store[self(d, "_fsm.current_state")]
        cfg == store[self(d, "_driver_config")]
        listener == store[self(d, "_send_event")]
        h == state_handlers(st, e)
    IN  /\ Len(received[d]) < MaxReceived
        /\ IF h = None
           THEN /\ dispatched' = [to |-> d, event |-> e, outcome |-> FSMStateError]
                /\ UNCHANGED << store, received >>
           ELSE \E o \in EnvsFor(h) : \E lis \in ListenerOutcomes :
                LET r == Run(h, kw, st, cfg, o)
                    moves == r.raised = None /\ r.next_state \in PlatformDriverState
                    new == IF moves THEN r.next_state ELSE st
                    ops == IF moves
                           THEN r.ops \o common_state_exit(st) \o common_state_enter(new)
                           ELSE r.ops
                IN  /\ store' = [store EXCEPT ![self(d, "_driver_config")] = r.config,
                                              ![self(d, "_fsm.current_state")] = new]
                    /\ received' = [received EXCEPT ![listener] = @ \o Delivered(ops)]
                    /\ dispatched' =
                          [to |-> d, event |-> e,
                           outcome |-> IF r.raised # None THEN r.raised
                                       ELSE IF moves /\ lis # OK THEN ListenerException
                                       ELSE RETURNED]
        /\ UNCHANGED << driver_vars, cap_vars, uns_vars >>

InstNext ==
    \E d \in Instances : \E e \in CallerEvents : \E kw \in ArgsOf(e) : OnEvent(d, e, kw)

InstSpec == Init /\ [][InstNext]_vars

\* ------------------------------------- the user notification service alone

UnsNext ==
    \/ Serving /\ \E n \in NewRequests : \E u \in UserIds : CreateNotification(n, u)
    \/ Serving /\ \E n \in UpdateRequests \cup MalformedRequests : \E u \in UserIds :
                     UpdateNotification(n, u)
    \/ Serving /\ \E id \in NotificationIds : DeleteNotification(id)
    \/ OnQuit

UnsSpec == Init /\ [][UnsNext]_vars

\* ----------------------------------- the driver with its capabilities read

\* get_resource_capabilities(current_state) is called, by the owning agent,
\* at any moment: it takes no lock and reads the engine's current state.
GetResourceCapabilities(current) ==
    /\ LET r == get_resource_capabilities(current_state, current)
       IN  caps' = [current |-> current, state |-> current_state,
                    events |-> get_events(current_state, current),
                    res_cmds |-> r.res_cmds, res_params |-> r.res_params]
    /\ UNCHANGED << driver_vars, inst_vars, uns_vars >>

\* One caller sends the events; the capabilities are read in between.
CapNext ==
    \/ \E t \in {1} :
          \/ Call(t)
          \/ Acquire(t)
          \/ Handle(t)
          \/ Transition(t)
    \/ \E current \in BOOLEAN : GetResourceCapabilities(current)

CapSpec == Init /\ [][CapNext]_vars

\* ================================================================ properties

\* What a call did, read off its steps.
Invoked(ops, name) ==
    Cardinality({i \in DOMAIN ops : ops[i].k = "prim" /\ ops[i].a = name})

Notified(ops, what) ==
    Cardinality({i \in DOMAIN ops : ops[i].k = "notify" /\ ops[i].a = what})

Notifications(ops) ==
    Cardinality({i \in DOMAIN ops : ops[i].k = "notify"})

Faulted(ops, names) ==
    \E i \in DOMAIN ops :
       /\ ops[i].k = "prim"
       /\ ops[i].a \in names
       /\ ops[i].b = PlatformConnectionException

Commands == {PING, GET, SET, EXECUTE}

\* The call that ended last was event e dispatched in state s.
Ended(s, e) ==
    /\ last.pc = "done"
    /\ last.from = s
    /\ last.event = e

NoCallInProgress == \A t \in Callers : call[t].pc = "idle"

\* C1: a PING, GET, SET or EXECUTE dispatched in CONNECTED whose primitive
\* raises a connection fault delivers exactly one lost-connection
\* notification and invokes disconnect() exactly once, whether or not that
\* disconnect() raised, and when on_event returns the state is DISCONNECTED.
C1_FaultedCommandRecovers ==
    \A e \in Commands :
       (Ended(CONNECTED, e) /\ Faulted(last.ops, CommandPrimitives))
          => /\ Notified(last.ops, LOST_CONNECTION) = 1
             /\ Invoked(last.ops, "disconnect") = 1
             /\ last.outcome = RETURNED => last.end = DISCONNECTED

\* A SET whose set_attribute_values() lost the connection and whose
\* recovery's disconnect() raised as well has returned in DISCONNECTED.
C1_Witness ==
    /\ Ended(CONNECTED, SET)
    /\ Faulted(last.ops, {"set_attribute_values"})
    /\ Prim("disconnect", OtherException) \in {last.ops[i] : i \in DOMAIN last.ops}
    /\ last.outcome = RETURNED
    /\ last.end = DISCONNECTED

\* The (state, event) pairs of the transition table of the specification.
TransitionTable ==
    {<< UNCONFIGURED, CONFIGURE >>,
     << DISCONNECTED, CONNECT >>, << DISCONNECTED, DISCONNECT >>,
     << CONNECTED, DISCONNECT >>, << CONNECTED, CONNECTION_LOST >>,
     << CONNECTED, PING >>, << CONNECTED, GET >>, << CONNECTED, SET >>,
     << CONNECTED, EXECUTE >>}

\* C2: an event sent in a state that has no handler for it fails with the
\* no-such-transition error, does nothing and leaves the state as it was.
C2_UnregisteredEventFails ==
    \A s \in PlatformDriverState : \A e \in CallerEvents :
       (Ended(s, e) /\ << s, e >> \notin TransitionTable)
          => /\ last.outcome = FSMStateError
             /\ last.ops = << >>
             /\ last.end = s

\* A GET sent in DISCONNECTED has failed.
C2_Witness ==
    /\ Ended(DISCONNECTED, GET)
    /\ last.outcome = FSMStateError
    /\ current_state = DISCONNECTED

\* C3: the calls of concurrent callers take effect one after another: every
\* call is dispatched in the state the calls that ended before it left, so
\* once all have ended the state is the one obtained by applying their
\* handlers in the order they ended, none lost and none applied twice.
C3_CallsAreSerialized ==
    /\ serial # Diverged
    /\ NoCallInProgress => current_state = serial

\* One caller is between its handler and its transition while another one
\* waits for the lock.
C3_Witness ==
    \E t, u \in Callers :
       /\ call[t].pc = "transition"
       /\ call[t].next_state = CONNECTED
       /\ call[u].pc = "waiting"
       /\ lock = t
       /\ serial = current_state

\* The steps of the transition of the call that ended last, when it made one:
\* the last four of its steps.
Transitioned == last.pc = "done" /\ last.from # last.end

TransitionSteps == SubSeq(last.ops, Len(last.ops) - 3, Len(last.ops))

\* C4 as claimed: every transition delivers two state-change notifications,
\* one triggered by EXIT for the old state, then one triggered by ENTER for
\* the new state.
C4_ExitThenEnterNotification ==
    Transitioned
       => Delivered(TransitionSteps)
             = << [a |-> last.from, b |-> last.from], [a |-> last.end, b |-> last.end] >>

\* C4 as amended: every transition runs the EXIT hook of the old state, which
\* delivers nothing, changes the state, and runs the ENTER hook of the new
\* state, which delivers the one state-change notification of the transition,
\* carrying the new state.
C4_EnterNotificationOnly ==
    Transitioned
       => /\ TransitionSteps
               = << Hook(EXIT, last.from),
                    [k |-> "state", a |-> last.end, b |-> last.from],
                    Hook(ENTER, last.end),
                    Notify(last.end, last.end) >>
          /\ Notified(last.ops, last.end) = 1
          /\ Notified(last.ops, last.from) = 0

\* A CONNECT has moved the driver from DISCONNECTED to CONNECTED.
C4_Witness ==
    /\ Ended(DISCONNECTED, CONNECT)
    /\ last.end = CONNECTED
    /\ Delivered(last.ops) = << [a |-> CONNECTED, b |-> CONNECTED] >>

\* The validation hook accepted the configuration of the call.
Validated(ops, outcome) ==
    Prim("validate_driver_configuration", outcome) \in {ops[i] : i \in DOMAIN ops}

\* C5: a CONFIGURE in UNCONFIGURED whose configuration the validation hook
\* accepts moves the state to DISCONNECTED and stores the configuration as
\* supplied.
C5_ConfigureStoresAndDisconnected ==
    (Ended(UNCONFIGURED, CONFIGURE) /\ Validated(last.ops, OK))
       => /\ last.end = DISCONNECTED
          /\ last.config = last.kw.driver_config
          /\ last.config \in Configs

\* The second configuration was accepted and is the stored one.
C5_Witness ==
    /\ Ended(UNCONFIGURED, CONFIGURE)
    /\ Validated(last.ops, OK)
    /\ last.kw.driver_config = "config_b"
    /\ driver_config = "config_b"
    /\ current_state = DISCONNECTED

\* C6: a CONFIGURE in UNCONFIGURED whose validation raises a configuration
\* fault (PlatformDriverException) returns None without raising, leaves the
\* state UNCONFIGURED and the configuration absent and notifies nobody; a
\* CONFIGURE with a valid configuration is accepted in the state it leaves.
C6_InvalidConfigureIsNoOp ==
    (Ended(UNCONFIGURED, CONFIGURE) /\ Validated(last.ops, PlatformDriverException))
       => /\ last.outcome = RETURNED
          /\ last.result = None
          /\ last.end = UNCONFIGURED
          /\ last.config = None
          /\ Notifications(last.ops) = 0
          /\ \A c \in Configs :
                LET again == Run(state_handlers(last.end, CONFIGURE),
                                 [NoArgs EXCEPT !.driver_config = c],
                                 last.end, last.config,
                                 [prim |-> OK, disc |-> OK, lis |-> OK])
                IN  /\ again.next_state = DISCONNECTED
                    /\ again.config = c

\* A configuration was refused and the driver is still unconfigured.
C6_Witness ==
    /\ Ended(UNCONFIGURED, CONFIGURE)
    /\ Validated(last.ops, PlatformDriverException)
    /\ last.kw.driver_config = "config_a"
    /\ current_state = UNCONFIGURED
    /\ driver_config = None
    /\ sent = << >>

\* What C7 says of a SET that ended.
SetRejected ==
    /\ last.outcome = FSMError
    /\ Invoked(last.ops, "set_attribute_values") = 0
    /\ last.end = CONNECTED
    /\ Notifications(last.ops) = 0

\* C7 as claimed: a SET in CONNECTED whose attrs argument is absent or an
\* empty list raises a usage fault without invoking set_attribute_values(),
\* the state stays CONNECTED and nothing is notified.
C7_SetAbsentOrEmptyRejected ==
    (Ended(CONNECTED, SET) /\ (~last.kw.has_attrs \/ last.kw.attrs = << >>))
       => SetRejected

\* C7 as amended: only an absent attrs argument (None) is rejected so.
C7_SetAbsentRejected ==
    (Ended(CONNECTED, SET) /\ ~last.kw.has_attrs)
       => SetRejected

\* A SET without attrs was rejected in CONNECTED.
C7_Witness ==
    /\ Ended(CONNECTED, SET)
    /\ ~last.kw.has_attrs
    /\ last.outcome = FSMError
    /\ current_state = CONNECTED

\* C8: DISCONNECT in DISCONNECTED returns None without error, invokes no
\* primitive, notifies nobody and leaves the state DISCONNECTED; DISCONNECT
\* in CONNECTED with disconnect() succeeding invokes disconnect() once and
\* ends in DISCONNECTED with the one state-change notification: any number
\* of DISCONNECTs that follow add nothing to it.
C8_DisconnectIdempotent ==
    /\ Ended(DISCONNECTED, DISCONNECT)
          => /\ last.outcome = RETURNED
             /\ last.result = None
             /\ last.ops = << >>
             /\ last.end = DISCONNECTED
    /\ (Ended(CONNECTED, DISCONNECT) /\ Prim("disconnect", OK) = Head(last.ops))
          => /\ Invoked(last.ops, "disconnect") = 1
             /\ last.end = DISCONNECTED
             /\ Delivered(last.ops) = << [a |-> DISCONNECTED, b |-> DISCONNECTED] >>

\* A DISCONNECT was handled in DISCONNECTED right after the DISCONNECT that
\* left CONNECTED.
C8_Witness ==
    /\ Ended(DISCONNECTED, DISCONNECT)
    /\ last.outcome = RETURNED
    /\ NoCallInProgress
    /\ current_state = DISCONNECTED
    /\ Len(sent) >= 3
    /\ sent[Len(sent)].a = DISCONNECTED
    /\ sent[Len(sent) - 1].a = CONNECTED

LostSent == Cardinality({i \in DOMAIN sent : sent[i].a = LOST_CONNECTION})

\* One lost-connection notification per detected loss; none from an explicit
\* DISCONNECT nor from a command whose primitive returned.
OnePerLoss ==
    /\ LostSent = detected
    /\ (last.pc = "done" /\ last.event = DISCONNECT)
          => Notified(last.ops, LOST_CONNECTION) = 0
    /\ (last.pc = "done" /\ last.event \in Commands /\ ~Faulted(last.ops, CommandPrimitives))
          => Notifications(last.ops) = 0

\* C9 as claimed: one lost-connection notification per detected loss, and
\* with no call in progress the state is not CONNECTED unless a CONNECT
\* succeeded after the most recent detected loss.
C9_NeverStuckConnected ==
    /\ OnePerLoss
    /\ (NoCallInProgress /\ current_state = CONNECTED) => after_loss = NO_LOSS

\* C9 as amended: ... unless a CONNECT succeeded after the most recent
\* detected loss or the listener raised when it was notified of that loss.
C9_NeverStuckUnlessListenerRaised ==
    /\ OnePerLoss
    /\ (NoCallInProgress /\ current_state = CONNECTED) => after_loss # LOSS_NOTIFIED

\* Two losses were detected and notified, with a CONNECT between them.
C9_Witness ==
    /\ NoCallInProgress
    /\ detected = 2
    /\ LostSent = 2
    /\ after_loss = LOSS_NOTIFIED
    /\ current_state = DISCONNECTED

AllPrimitives == CommandPrimitives \cup {"connect", "disconnect"}

\* C10 as claimed: whatever event is handled in CONNECTED, the explicit
\* DISCONNECT included, a connection fault of the primitive the handler
\* invokes is not raised to the caller: the call returns normally, the state
\* is DISCONNECTED and the listener has the lost-connection notification.
\* (Stated of the calls during which the listener itself did not raise.)
C10_NoFaultSurfaces ==
    (/\ last.pc = "done"
     /\ last.from = CONNECTED
     /\ Faulted(last.ops, AllPrimitives)
     /\ last.outcome # ListenerException)
       => /\ last.outcome = RETURNED
          /\ last.end = DISCONNECTED
          /\ Notified(last.ops, LOST_CONNECTION) = 1

\* C10 as amended: for PING, GET, SET, EXECUTE and CONNECTION_LOST the fault
\* is not raised to the caller and the lost-connection notification is
\* delivered; the call returns normally in DISCONNECTED unless the listener
\* raised. The fault of the disconnect() of an explicit DISCONNECT is raised
\* to the caller: the state stays CONNECTED and nothing is notified.
C10_NoFaultSurfacesButDisconnect ==
    (last.pc = "done" /\ last.from = CONNECTED /\ Faulted(last.ops, AllPrimitives))
       => IF last.event = DISCONNECT
          THEN /\ last.outcome = PlatformConnectionException
               /\ last.end = CONNECTED
               /\ Notifications(last.ops) = 0
          ELSE /\ last.outcome \in {RETURNED, ListenerException}
               /\ Notified(last.ops, LOST_CONNECTION) = 1
               /\ last.outcome = RETURNED => last.end = DISCONNECTED
               /\ last.end = CONNECTED =>
                     last.ops[Len(last.ops)] = Notify(LOST_CONNECTION, CONNECTED)

\* An EXECUTE whose execute() lost the connection has returned normally.
C10_Witness ==
    /\ Ended(CONNECTED, EXECUTE)
    /\ Faulted(last.ops, {"execute"})
    /\ last.outcome = RETURNED
    /\ current_state = DISCONNECTED
    /\ sent[Len(sent) - 1].a = LOST_CONNECTION

\* The recovery ran in the call that ended last and its disconnect() raised.
TeardownFaulted ==
    /\ last.pc = "done"
    /\ last.from = CONNECTED
    /\ DetectsLoss(last.event, last.ops)
    /\ \E i \in DOMAIN last.ops :
          /\ last.ops[i].k = "prim"
          /\ last.ops[i].a = "disconnect"
          /\ last.ops[i].b # OK

\* C11 as claimed: when the disconnect() of the recovery raises, the fault
\* does not reach the caller: the lost-connection notification is delivered
\* exactly once, the state becomes DISCONNECTED and on_event returns normally.
C11_TeardownFaultNeverBlocks ==
    TeardownFaulted
       => /\ Notified(last.ops, LOST_CONNECTION) = 1
          /\ last.end = DISCONNECTED
          /\ last.outcome = RETURNED

\* C11 as amended: the fault of disconnect() never reaches the caller and the
\* lost-connection notification is delivered exactly once; the state becomes
\* DISCONNECTED and on_event returns normally (with result None) unless the
\* listener callback raises: on_event then ends with the listener's
\* exception, in CONNECTED when it was raised for the lost-connection
\* notification.
C11_TeardownFaultSwallowed ==
    TeardownFaulted
       => /\ last.outcome \in {RETURNED, ListenerException}
          /\ Notified(last.ops, LOST_CONNECTION) = 1
          /\ Invoked(last.ops, "disconnect") = 1
          /\ last.outcome = RETURNED
                => (last.end = DISCONNECTED /\ last.result = None)
          /\ last.outcome = ListenerException
                => /\ last.ops[Len(last.ops)].k = "notify"
                   /\ last.end = CONNECTED
                         <=> last.ops[Len(last.ops)].a = LOST_CONNECTION

\* A CONNECTION_LOST whose disconnect() raised a connection fault of its own
\* has returned normally in DISCONNECTED.
C11_Witness ==
    /\ Ended(CONNECTED, CONNECTION_LOST)
    /\ last.ops[1] = Prim("disconnect", PlatformConnectionException)
    /\ last.outcome = RETURNED
    /\ last.result = None
    /\ current_state = DISCONNECTED
    /\ sent[Len(sent)].a = DISCONNECTED

\* A call is inside its handler or its transition.
Inside(t) == call[t].pc \in {"locked", "transition"}

\* The last n notifications the listener received.
LastSent(n) == SubSeq(sent, Len(sent) - n + 1, Len(sent))

\* C12: at most one on_event call is inside a handler or a transition at any
\* time, and it is the one holding the engine's lock. What a call delivers to
\* the listener is contiguous: while a call is between its handler and its
\* transition the notifications of its handler are the last the listener
\* received, and the only step that delivers anything is the transition of
\* this call, which delivers the state-change notification for its new state
\* and ends the call.
C12_OneCallInsideAtATime ==
    /\ [](/\ Cardinality({t \in Callers : Inside(t)}) <= 1
          /\ \A t \in Callers : Inside(t) => lock = t)
    /\ [][\A t \in Callers :
             call[t].pc = "transition"
                => /\ Len(Delivered(call[t].ops)) <= Len(sent)
                   /\ LastSent(Len(Delivered(call[t].ops))) = Delivered(call[t].ops)
                   /\ sent' # sent
                         => /\ call'[t].pc = "idle"
                            /\ last'.event = call[t].event
                            /\ Delivered(last'.ops)
                                  = Delivered(call[t].ops)
                                       \o << [a |-> call[t].next_state,
                                              b |-> call[t].next_state] >>
                            /\ sent' = sent \o << [a |-> call[t].next_state,
                                                   b |-> call[t].next_state] >>]_vars

\* A recovery has notified the lost connection and is about to make its
\* transition to DISCONNECTED while another caller is waiting in on_event.
C12_Witness ==
    \E t, u \in Callers :
       /\ call[t].pc = "transition"
       /\ call[t].next_state = DISCONNECTED
       /\ Delivered(call[t].ops) = << [a |-> LOST_CONNECTION, b |-> CONNECTED] >>
       /\ sent[Len(sent)].a = LOST_CONNECTION
       /\ call[u].pc = "waiting"
       /\ lock = t

\* The events the driver fires or handles for its own life cycle.
InternalEvents == {ENTER, EXIT, CONFIGURE, CONNECT, DISCONNECT, CONNECTION_LOST}

\* The events the transition table of the specification registers per state,
\* ENTER and EXIT being registered for every state.
RegisteredFor(s) ==
    {ENTER, EXIT} \cup {e \in CallerEvents : << s, e >> \in TransitionTable}

\* C13: in every reachable state and for both scopes the command list of
\* get_resource_capabilities contains none of the internal events ENTER,
\* EXIT, CONFIGURE, CONNECT, DISCONNECT, CONNECTION_LOST, and every call that
\* was made returned such a list; called in DISCONNECTED with
\* current_state=True it returned exactly the members of the capability
\* enumeration among the events registered for DISCONNECTED.
C13_NoInternalEventSurfaced ==
    /\ \A current \in BOOLEAN :
          get_resource_capabilities(current_state, current).res_cmds
             \cap InternalEvents = {}
    /\ caps.res_cmds \cap InternalEvents = {}
    /\ (caps.current /\ caps.state = DISCONNECTED)
          => /\ caps.events = {ENTER, EXIT, CONNECT, DISCONNECT}
             /\ caps.res_cmds = RegisteredFor(DISCONNECTED) \cap PlatformDriverCapability

\* The capabilities of the current state were read in DISCONNECTED, where
\* four events have a handler.
C13_Witness ==
    /\ caps.current
    /\ caps.state = DISCONNECTED
    /\ current_state = DISCONNECTED
    /\ Cardinality(caps.events) = 4
    /\ caps.res_cmds = {}

\* The resource-facing commands registered for some state.
AllStatesCommands ==
    (UNION {RegisteredFor(s) : s \in PlatformDriverState}) \cap PlatformDriverCapability

\* C14: in every reachable state the command list for current_state=True is
\* a subset of the one for current_state=False, as are the events they are
\* filtered from, and every call with current_state=False, in whatever state
\* it was made, returned the same list: the capability members among the
\* events registered for any state.
C14_CurrentWithinAll ==
    /\ get_resource_capabilities(current_state, TRUE).res_cmds
          \subseteq get_resource_capabilities(current_state, FALSE).res_cmds
    /\ get_events(current_state, TRUE) \subseteq get_events(current_state, FALSE)
    /\ get_resource_capabilities(current_state, FALSE).res_cmds = AllStatesCommands
    /\ caps.state # None
          => IF caps.current
             THEN /\ caps.res_cmds \subseteq AllStatesCommands
                  /\ caps.events = RegisteredFor(caps.state)
             ELSE /\ caps.res_cmds = AllStatesCommands
                  /\ caps.events = UNION {RegisteredFor(s) : s \in PlatformDriverState}

\* The capabilities of all states were read in CONNECTED: all ten events
\* have a handler in some state.
C14_Witness ==
    /\ ~caps.current
    /\ caps.state = CONNECTED
    /\ current_state = CONNECTED
    /\ caps.events = PlatformDriverEvent
    /\ caps.res_cmds = {}

\* The places of the state-change notifications among those received.
StateChanges == {i \in DOMAIN sent : sent[i].a \in PlatformDriverState}

\* The state carried by the most recent state-change notification.
LastStateChange ==
    sent[CHOOSE i \in StateChanges : \A j \in StateChanges : j <= i].a

\* C15: every state-change notification carries the state the engine is in
\* when it is delivered; once the driver has made a transition and no
\* on_event call is in progress, a state-change notification was delivered
\* and the most recent one carries the current state.
C15_StateChangeCarriesCurrentState ==
    /\ \A i \in StateChanges : sent[i].a = sent[i].b
    /\ (NoCallInProgress /\ current_state # UNCONFIGURED)
          => /\ StateChanges # {}
             /\ LastStateChange = current_state

\* The driver is CONNECTED with no call in progress; the listener was last
\* notified of a lost connection (and raised), the most recent state-change
\* notification being the one for CONNECTED.
C15_Witness ==
    /\ NoCallInProgress
    /\ current_state = CONNECTED
    /\ Len(sent) >= 3
    /\ sent[Len(sent)].a = LOST_CONNECTION
    /\ sent[Len(sent) - 1] = [a |-> CONNECTED, b |-> CONNECTED]
    /\ LastStateChange = CONNECTED

\* The step is the handler of a CONFIGURE sent in UNCONFIGURED whose
\* configuration was accepted: it stores the configuration of the call and
\* goes on to the transition to DISCONNECTED.
SuccessfulConfigureStep ==
    \E t \in Callers :
       /\ call[t].pc = "locked"
       /\ call[t].event = CONFIGURE
       /\ current_state = UNCONFIGURED
       /\ call[t].kw.driver_config \in Configs
       /\ driver_config' = call[t].kw.driver_config
       /\ call'[t].pc = "transition"
       /\ call'[t].next_state = DISCONNECTED
       /\ call'[t].ops = << Prim("validate_driver_configuration", OK) >>

\* C16: whatever events are sent, a driver that has left UNCONFIGURED never
\* is in UNCONFIGURED again, and the stored configuration is written once:
\* absent until the handler of a successful CONFIGURE stores the
\* configuration of that call, and never changed once it is stored.
C16_ConfiguredOnce ==
    [][/\ current_state # UNCONFIGURED => current_state' # UNCONFIGURED
       /\ driver_config # None => driver_config' = driver_config
       /\ driver_config' # driver_config
             => (driver_config = None /\ SuccessfulConfigureStep)]_vars

\* With config_a stored and the driver CONNECTED, a CONFIGURE carrying
\* config_b has failed and config_a is still the stored configuration.
C16_Witness ==
    /\ Ended(CONNECTED, CONFIGURE)
    /\ last.kw.driver_config = "config_b"
    /\ last.outcome = FSMStateError
    /\ driver_config = "config_a"
    /\ current_state = CONNECTED

\* The state and the configuration of instance d; here the attributes are
\* read where __init__ put them, on the instance.
StateOf(d) == store[<< d, "_fsm.current_state" >>]
ConfigOf(d) == store[<< d, "_driver_config" >>]

\* C17: an event dispatched to one driver instance leaves the FSM state and
\* the stored configuration of every other instance as they were and
\* delivers nothing to the listener of another instance; no instance ever
\* sends to a listener that is not its own.
C17_InstancesShareNothing ==
    /\ [](\A d \in Instances : store[<< d, "_send_event" >>] = d)
    /\ [][\A d \in Instances :
             dispatched'.to # d
                => /\ StateOf(d)' = StateOf(d)
                   /\ ConfigOf(d)' = ConfigOf(d)
                   /\ received'[d] = received[d]]_vars

\* driver_1 is CONNECTED with config_a and its listener was notified twice,
\* while driver_2, which a CONFIGURE with config_b was just sent to, is
\* DISCONNECTED and its listener was notified once.
C17_Witness ==
    /\ StateOf("driver_1") = CONNECTED
    /\ ConfigOf("driver_1") = "config_a"
    /\ Len(received["driver_1"]) = 2
    /\ dispatched.to = "driver_2"
    /\ dispatched.event = CONFIGURE
    /\ StateOf("driver_2") = DISCONNECTED
    /\ ConfigOf("driver_2") = "config_b"
    /\ received["driver_2"] = << [a |-> DISCONNECTED, b |-> DISCONNECTED] >>

\* The notification the call made last was about has, or had, a subscriber.
Subscribed(id) == id \in NotificationIds /\ subscribers[id] # "none"

\* C18 as claimed: a create_notification that returns leaves the user with an
\* event processor whose subscriber is active, and once delete_notification
\* was called for the only notification a user's record lists, the service
\* holds no event processor for that user and the subscriber of that
\* notification is stopped.
C18_ProcessorCreatedThenDropped ==
    /\ (uns_last.op = "create" /\ uns_last.outcome = RETURNED)
          => \E p \in event_processors :
                /\ p.user_id = uns_last.user_id
                /\ p.subscriber = uns_last.notification_id
                /\ subscribers[p.subscriber] = "active"
    /\ \A u \in Users :
          (/\ uns_last.op = "delete"
           /\ rr_users[u] = {uns_last.notification_id}
           /\ Subscribed(uns_last.notification_id))
             => /\ \A p \in event_processors : p.user_id # u
                /\ subscribers[uns_last.notification_id] = "stopped"

\* The fields of a NotificationRequest that tell what is subscribed to, and
\* the others a request carries.
SubscriptionFields == {"origin", "origin_type", "event_type", "event_subtype"}
OtherFields == {"delivery_config", "type"}

\* What the registry, the service and the event bus hold.
uns_held ==
    << rr_notifications, rr_created, rr_users, event_processors, subscribers,
       published >>

\* The step is an update_notification call for a persisted notification with
\* a well-formed request.
UpdateOfPersisted ==
    /\ uns_last'.op = "update"
    /\ uns_last'.notification.given = "request"
    /\ Persisted(uns_last'.notification_id) # {}

\* An update whose request differs from the persisted notification in a
\* subscription field fails with BadRequest and changes nothing.
UpdateOfSubscriptionRejected ==
    (/\ UpdateOfPersisted
     /\ \E old \in Persisted(uns_last'.notification_id) :
           \E f \in SubscriptionFields : uns_last'.notification[f] # old[f])
       => /\ uns_last'.outcome = BadRequest
          /\ UNCHANGED uns_held

\* An update that returns has changed the delivery configuration at most.
UpdateAppliedToDeliveryOnly ==
    (UpdateOfPersisted /\ uns_last'.outcome = RETURNED)
       => \A old \in Persisted(uns_last'.notification_id) :
             \A f \in SubscriptionFields \cup (OtherFields \ {"delivery_config"}) :
                uns_last'.notification[f] = old[f]

\* C19 as claimed: update_notification with a notification whose origin,
\* origin_type, event_type or event_subtype differs from the persisted one
\* fails with BadRequest and changes nothing in the registry, in the event
\* processors and in what is published; an update that is applied changes
\* the delivery configuration only.
C19_OnlyDeliveryConfigUpdated ==
    [][UpdateOfSubscriptionRejected /\ UpdateAppliedToDeliveryOnly]_vars

\* The first half of C19 alone.
C19_SubscriptionUpdateRejected ==
    [][UpdateOfSubscriptionRejected]_vars

\* The recovery ran in the call that ended last.
Recovered ==
    /\ last.pc = "done"
    /\ last.from = CONNECTED
    /\ DetectsLoss(last.event, last.ops)

\* C20: in a call that ran the recovery the steps come in one order: the
\* disconnect() attempt has ended, normally or by a fault, right before the
\* lost-connection notification is delivered, in CONNECTED; the change of
\* state to DISCONNECTED comes after that notification and the state-change
\* notification for DISCONNECTED after the change of state. The
\* lost-connection notification is delivered once whatever disconnect() did.
C20_RecoveryOrder ==
    Recovered
       => /\ Invoked(last.ops, "disconnect") = 1
          /\ Notified(last.ops, LOST_CONNECTION) = 1
          /\ \A i, j \in DOMAIN last.ops :
                (/\ last.ops[i].k = "prim" /\ last.ops[i].a = "disconnect"
                 /\ last.ops[j] = Notify(LOST_CONNECTION, CONNECTED))
                   => j = i + 1
          /\ \A j, s \in DOMAIN last.ops :
                (last.ops[j].k = "notify" /\ last.ops[j].a = LOST_CONNECTION
                 /\ last.ops[s].k = "state")
                   => (j < s /\ last.ops[s].a = DISCONNECTED)
          /\ \A n \in DOMAIN last.ops :
                last.ops[n] = Notify(DISCONNECTED, DISCONNECTED)
                   => \E s \in DOMAIN last.ops : s < n /\ last.ops[s].k = "state"
          /\ last.end = DISCONNECTED
                => Notified(last.ops, DISCONNECTED) = 1

\* A GET whose get() lost the connection has gone through the whole recovery,
\* its disconnect() having raised.
C20_Witness ==
    /\ Ended(CONNECTED, GET)
    /\ last.ops = << Prim("get", PlatformConnectionException),
                     Prim("disconnect", OtherException),
                     Notify(LOST_CONNECTION, CONNECTED),
                     Hook(EXIT, CONNECTED),
                     [k |-> "state", a |-> DISCONNECTED, b |-> CONNECTED],
                     Hook(ENTER, DISCONNECTED),
                     Notify(DISCONNECTED, DISCONNECTED) >>
    /\ last.outcome = RETURNED

\* The outcome of the disconnect() of the recovery of the call that ended
\* last.
TeardownOutcome ==
    LET i == CHOOSE i \in DOMAIN last.ops :
                last.ops[i].k = "prim" /\ last.ops[i].a = "disconnect"
    IN  last.ops[i].b

\* C21: when the recovery ran and on_event returns, its result is the value
\* disconnect() returned when disconnect() returned normally and None when
\* it raised; it is never the value of the command's primitive, and on_event
\* never ends with the fault of that primitive nor with the one of
\* disconnect().
C21_RecoveryResult ==
    Recovered
       => /\ last.outcome \notin PrimitiveOutcomes
          /\ last.outcome = RETURNED
                => /\ last.result
                        = (IF TeardownOutcome = OK THEN RetOf("disconnect") ELSE None)
                   /\ last.result \notin {RetOf(name) : name \in CommandPrimitives}

\* A PING whose ping() lost the connection has returned what the
\* disconnect() of its recovery returned.
C21_Witness ==
    /\ Ended(CONNECTED, PING)
    /\ Faulted(last.ops, {"ping"})
    /\ TeardownOutcome = OK
    /\ last.outcome = RETURNED
    /\ last.result = RetOf("disconnect")
    /\ current_state = DISCONNECTED

\* The call that ended last handled the explicit CONNECTION_LOST event in
\* CONNECTED, or a PING in CONNECTED whose ping() raised a connection fault.
LostEventOrFaultedPing ==
    \/ Ended(CONNECTED, CONNECTION_LOST)
    \/ Ended(CONNECTED, PING) /\ Faulted(last.ops, {"ping"})

\* The other of the two events, handled in CONNECTED with the stored
\* configuration as it is, disconnect() and the listener behaving as they did
\* in the call that ended last (ping() raising the connection fault).
Counterpart ==
    LET other == IF last.event = PING THEN CONNECTION_LOST ELSE PING
        raised_on_loss == /\ last.outcome = ListenerException
                          /\ last.ops[Len(last.ops)].a = LOST_CONNECTION
        o == [prim |-> IF other = PING THEN PlatformConnectionException ELSE OK,
              disc |-> TeardownOutcome,
              lis |-> IF raised_on_loss THEN ListenerException ELSE OK]
    IN  Run(state_handlers(CONNECTED, other), NoArgs, CONNECTED, last.config, o)

\* The steps of the call that ended last from its disconnect() on.
RECURSIVE FromTeardown(_)
FromTeardown(ops) ==
    IF ops = << >> \/ (Head(ops).k = "prim" /\ Head(ops).a = "disconnect")
    THEN ops
    ELSE FromTeardown(Tail(ops))

\* The steps of the engine's transition from CONNECTED to DISCONNECTED.
TransitionToDisconnected ==
    common_state_exit(CONNECTED)
       \o << [k |-> "state", a |-> DISCONNECTED, b |-> CONNECTED] >>
       \o common_state_enter(DISCONNECTED)

\* C22 as claimed: the explicit CONNECTION_LOST event in CONNECTED and a PING
\* whose primitive raises a connection fault both end in DISCONNECTED, invoke
\* disconnect() exactly once, deliver one lost-connection notification then
\* the state-change notification for DISCONNECTED, and return the same
\* result.
C22_LostEventLikeFaultedPingAlways ==
    LostEventOrFaultedPing
       => /\ last.end = DISCONNECTED
          /\ Invoked(last.ops, "disconnect") = 1
          /\ Delivered(last.ops)
                = << [a |-> LOST_CONNECTION, b |-> CONNECTED],
                     [a |-> DISCONNECTED, b |-> DISCONNECTED] >>
          /\ last.outcome = RETURNED
          /\ last.result = Counterpart.result

\* C22 as amended: whatever disconnect() and the listener do, the two calls
\* perform the same steps from disconnect() on (disconnect() once, the
\* lost-connection notification, then the transition with the state-change
\* notification for DISCONNECTED) and end alike; they return the same result
\* in DISCONNECTED unless the listener raises, in which case both end with
\* the listener's exception, in CONNECTED when it was raised for the
\* lost-connection notification.
C22_LostEventLikeFaultedPing ==
    LostEventOrFaultedPing
       => LET r == Counterpart
          IN  /\ Invoked(last.ops, "disconnect") = 1
              /\ Invoked(r.ops, "disconnect") = 1
              /\ FromTeardown(last.ops)
                    = FromTeardown(r.ops)
                         \o (IF r.raised = None THEN TransitionToDisconnected ELSE << >>)
              /\ last.config = r.config
              /\ IF r.raised = None
                 THEN /\ r.next_state = DISCONNECTED
                      /\ last.end = DISCONNECTED
                      /\ last.outcome \in {RETURNED, ListenerException}
                      /\ last.outcome = RETURNED => last.result = r.result
                 ELSE /\ last.outcome = r.raised
                      /\ last.end = CONNECTED
              /\ last.outcome = RETURNED
                    => Delivered(last.ops)
                          = << [a |-> LOST_CONNECTION, b |-> CONNECTED],
                               [a |-> DISCONNECTED, b |-> DISCONNECTED] >>

\* A CONNECTION_LOST event was handled in CONNECTED: the listener has received
\* the lost-connection notification and then the state-change notification.
C22_Witness ==
    /\ Ended(CONNECTED, CONNECTION_LOST)
    /\ last.outcome = RETURNED
    /\ last.result = RetOf("disconnect")
    /\ current_state = DISCONNECTED
    /\ Delivered(last.ops) = LastSent(2)
    /\ << sent[Len(sent) - 1].a, sent[Len(sent)].a >> = << LOST_CONNECTION, DISCONNECTED >>

\* The changes of state the transition table allows.
StateChangesAllowed ==
    {<< UNCONFIGURED, DISCONNECTED >>,
     << DISCONNECTED, CONNECTED >>,
     << CONNECTED, DISCONNECTED >>}

\* A step that changes the state changes it as allowed, and when it enters
\* CONNECTED it is the transition of a call whose connect() returned
\* normally and that ends with this step.
StateChangeStep ==
    current_state' # current_state
       => /\ << current_state, current_state' >> \in StateChangesAllowed
          /\ current_state' = CONNECTED
                => \E t \in Callers :
                      /\ call[t].pc = "transition"
                      /\ call[t].from = DISCONNECTED
                      /\ call[t].event = CONNECT
                      /\ call[t].ops = << Prim("connect", OK) >>
                      /\ call'[t].pc = "idle"
                      /\ last'.ops[1] = Prim("connect", OK)

\* C23: the state is always one of UNCONFIGURED, DISCONNECTED, CONNECTED and
\* starts as UNCONFIGURED; the only changes of state are UNCONFIGURED to
\* DISCONNECTED, DISCONNECTED to CONNECTED and CONNECTED to DISCONNECTED;
\* CONNECTED is never entered from UNCONFIGURED, and every entry into
\* CONNECTED follows, in the same call, a connect() that returned normally.
C23_StateChanges ==
    /\ current_state = UNCONFIGURED
    /\ [](current_state \in PlatformDriverState)
    /\ [][StateChangeStep]_vars

\* The three changes of state have happened: the driver was configured,
\* connected and disconnected.
C23_Witness ==
    /\ NoCallInProgress
    /\ Ended(CONNECTED, DISCONNECT)
    /\ current_state = DISCONNECTED
    /\ << sent[1].a, sent[2].a, sent[Len(sent)].a >>
          = << DISCONNECTED, CONNECTED, DISCONNECTED >>

\* C24: whenever no on_event call is in progress the stored configuration is
\* absent if and only if the state is UNCONFIGURED; at any moment the state
\* is DISCONNECTED or CONNECTED only with a configuration stored, one of
\* those a CONFIGURE supplied.
C24_ConfigAbsentIffUnconfigured ==
    /\ NoCallInProgress => (driver_config = None <=> current_state = UNCONFIGURED)
    /\ current_state \in {DISCONNECTED, CONNECTED} => driver_config \in Configs

\* The driver was configured with the second configuration and has connected
\* since; no call is in progress.
C24_Witness ==
    /\ NoCallInProgress
    /\ current_state = CONNECTED
    /\ driver_config = "config_b"
    /\ Ended(DISCONNECTED, CONNECT)
    /\ sent = << [a |-> DISCONNECTED, b |-> DISCONNECTED],
                 [a |-> CONNECTED, b |-> CONNECTED] >>

\* The call that ended last was a CONNECT in DISCONNECTED whose connect()
\* raised.
ConnectRaised ==
    /\ Ended(DISCONNECTED, CONNECT)
    /\ last.ops # << >>
    /\ last.ops[1].k = "prim"
    /\ last.ops[1].a = "connect"
    /\ last.ops[1].b # OK

\* C25: a CONNECT in DISCONNECTED whose connect() raises, a connection fault
\* or any other exception, ends with that exception; the state stays
\* DISCONNECTED, the configuration is kept, no recovery runs (disconnect() is
\* not invoked), nothing is notified, and a CONNECT sent in the state it
\* leaves is handled and, with connect() returning, leads to CONNECTED.
C25_ConnectFaultPropagates ==
    ConnectRaised
       => /\ last.outcome = last.ops[1].b
          /\ last.outcome \in {PlatformConnectionException, OtherException}
          /\ last.end = DISCONNECTED
          /\ last.ops = << Prim("connect", last.outcome) >>
          /\ Invoked(last.ops, "disconnect") = 0
          /\ Notifications(last.ops) = 0
          /\ last.config \in Configs
          /\ state_handlers(last.end, CONNECT) = "_handler_disconnected_connect"
          /\ LET again == Run(state_handlers(last.end, CONNECT), NoArgs,
                              last.end, last.config,
                              [prim |-> OK, disc |-> OK, lis |-> OK])
             IN  /\ again.raised = None
                 /\ again.next_state = CONNECTED

\* A CONNECT whose connect() raised a connection fault has ended: the driver
\* is still DISCONNECTED and the listener has received nothing but the
\* notification of the configuration's transition.
C25_Witness ==
    /\ Ended(DISCONNECTED, CONNECT)
    /\ last.outcome = PlatformConnectionException
    /\ NoCallInProgress
    /\ current_state = DISCONNECTED
    /\ sent = << [a |-> DISCONNECTED, b |-> DISCONNECTED] >>
    /\ detected = 0

\* The primitive each command event is delegated to.
PrimitiveOf(e) ==
    CASE e = PING -> "ping"
      [] e = GET -> "get"
      [] e = SET -> "set_attribute_values"
      [] e = EXECUTE -> "execute"

\* The call that ended last was a command handled in CONNECTED whose
\* primitive ended with the given outcome.
CommandEndedWith(outcome) ==
    /\ last.pc = "done"
    /\ last.from = CONNECTED
    /\ last.event \in Commands
    /\ last.ops # << >>
    /\ last.ops[1] = Prim(PrimitiveOf(last.event), outcome)

\* C26: a PING, GET, SET or EXECUTE in CONNECTED whose primitive fails with
\* a fault that is not a connection fault is not treated as a lost
\* connection: the fault is raised to the caller, disconnect() is not
\* invoked, nothing is notified and the state remains CONNECTED.
C26_OtherFaultPropagates ==
    CommandEndedWith(OtherException)
       => /\ last.outcome = OtherException
          /\ last.ops = << Prim(PrimitiveOf(last.event), OtherException) >>
          /\ Invoked(last.ops, "disconnect") = 0
          /\ Notifications(last.ops) = 0
          /\ ~DetectsLoss(last.event, last.ops)
          /\ last.end = CONNECTED

\* An EXECUTE whose execute() raised another exception has ended with it: no
\* loss was ever detected and the driver is still CONNECTED.
C26_Witness ==
    /\ CommandEndedWith(OtherException)
    /\ last.event = EXECUTE
    /\ last.outcome = OtherException
    /\ NoCallInProgress
    /\ current_state = CONNECTED
    /\ detected = 0
    /\ sent[Len(sent)].a = CONNECTED

\* Caller t holds the lock with a CONFIGURE that carries no configuration,
\* the state being UNCONFIGURED, or with an EXECUTE that carries no command,
\* the state being CONNECTED: its handler is about to run.
MissingArgument(t) ==
    /\ call[t].pc = "locked"
    /\ \/ /\ current_state = UNCONFIGURED
          /\ call[t].event = CONFIGURE
          /\ call[t].kw.driver_config = None
       \/ /\ current_state = CONNECTED
          /\ call[t].event = EXECUTE
          /\ call[t].kw.nargs = 0

\* C27: a CONFIGURE in UNCONFIGURED without a configuration and an EXECUTE
\* in CONNECTED without a command fail with the usage fault (FSMError)
\* before the validation hook or any primitive is invoked: the step that
\* handles such a call ends it with FSMError and no step performed, and
\* leaves the state, the stored configuration, what the listener has
\* received and the number of detected losses as they were.
C27_MissingArgumentFailsFast ==
    [][\A t \in Callers :
          MissingArgument(t)
             => /\ UNCHANGED << current_state, driver_config, sent, detected, after_loss >>
                /\ call'[t] # call[t]
                      => /\ call'[t] = Idle
                         /\ last'.event = call[t].event
                         /\ last'.kw = call[t].kw
                         /\ last'.outcome = FSMError
                         /\ last'.ops = << >>
                         /\ last'.from = current_state
                         /\ last'.end = current_state
                         /\ last'.config = driver_config]_vars

\* An EXECUTE without a command was rejected in CONNECTED: the listener has
\* received nothing beyond the notifications of the two transitions that led
\* there and the configuration is the one stored before.
C27_Witness ==
    /\ Ended(CONNECTED, EXECUTE)
    /\ last.kw.nargs = 0
    /\ last.outcome = FSMError
    /\ last.ops = << >>
    /\ NoCallInProgress
    /\ current_state = CONNECTED
    /\ driver_config = "config_a"
    /\ sent = << [a |-> DISCONNECTED, b |-> DISCONNECTED],
                 [a |-> CONNECTED, b |-> CONNECTED] >>

\* Caller t holds the lock with a command, the state being CONNECTED.
CommandDispatched(t) ==
    /\ call[t].pc = "locked"
    /\ current_state = CONNECTED
    /\ call[t].event \in Commands

\* C28: a PING, GET, SET or EXECUTE in CONNECTED whose primitive returns
\* normally leaves the state CONNECTED and the stored configuration as it
\* was, invokes nothing but that primitive (neither connect() nor
\* disconnect()), notifies nothing and returns the primitive's value as the
\* result of on_event.
C28_CommandInPlace ==
    /\ [](CommandEndedWith(OK)
            => /\ last.outcome = RETURNED
               /\ last.result = RetOf(PrimitiveOf(last.event))
               /\ last.ops = << Prim(PrimitiveOf(last.event), OK) >>
               /\ Invoked(last.ops, "connect") = 0
               /\ Invoked(last.ops, "disconnect") = 0
               /\ Notifications(last.ops) = 0
               /\ last.end = CONNECTED)
    /\ [][\A t \in Callers :
             (/\ CommandDispatched(t)
              /\ call'[t].pc = "idle"
              /\ last'.ops # << >>
              /\ last'.ops[1] = Prim(PrimitiveOf(call[t].event), OK))
                => /\ last'.event = call[t].event
                   /\ current_state' = CONNECTED
                   /\ UNCHANGED << driver_config, sent, detected, after_loss >>
                   /\ last'.config = driver_config]_vars

\* A GET has returned what get() returned; a loss of the connection was
\* detected and repaired before, and the listener has received nothing
\* since the CONNECT that repaired it.
C28_Witness ==
    /\ CommandEndedWith(OK)
    /\ last.event = GET
    /\ last.result = RetOf("get")
    /\ NoCallInProgress
    /\ current_state = CONNECTED
    /\ detected = 1
    /\ after_loss = NO_LOSS
    /\ sent[Len(sent)] = [a |-> CONNECTED, b |-> CONNECTED]

\* Two loss detections, one of them the CONNECTION_LOST event, the other one
\* CONNECTION_LOST or a command: the one served first, in CONNECTED, has ended
\* (it is the call that ended last) and caller u, who holds the lock, is the
\* one served second.
ServedSecond(u) ==
    /\ call[u].pc = "locked"
    /\ Recovered
    /\ \/ last.event = CONNECTION_LOST /\ call[u].event \in Commands \cup {CONNECTION_LOST}
       \/ last.event \in Commands /\ call[u].event = CONNECTION_LOST

\* The step is the handling of the call served second, and when that call is
\* a command it is one whose primitive, if it gets invoked at all, raises a
\* connection fault.
SecondServed(u) ==
    LET ops == IF call'[u].pc = "idle" THEN last'.ops ELSE call'[u].ops
    IN  /\ ServedSecond(u)
        /\ call'[u] # call[u]
        /\ call[u].event \in Commands
              => \/ call'[u].pc = "idle" /\ last'.outcome = FSMStateError
                 \/ ops # << >> /\ ops[1] = Prim(PrimitiveOf(call[u].event),
                                                  PlatformConnectionException)

\* The call served second fails with the no-such-transition error and does
\* nothing; the two calls together have delivered one lost-connection
\* notification and invoked disconnect() once.
SecondFindsDisconnected(u) ==
    /\ current_state = DISCONNECTED
    /\ call'[u] = Idle
    /\ last'.event = call[u].event
    /\ last'.from = DISCONNECTED
    /\ last'.outcome = FSMStateError
    /\ last'.ops = << >>
    /\ last'.end = DISCONNECTED
    /\ UNCHANGED << current_state, driver_config, sent, detected, after_loss >>
    /\ Notified(last.ops, LOST_CONNECTION) + Notified(last'.ops, LOST_CONNECTION) = 1
    /\ Invoked(last.ops, "disconnect") + Invoked(last'.ops, "disconnect") = 1

\* C29 as claimed: of two concurrent loss detections starting in CONNECTED
\* (a command whose primitive raises a connection fault and a CONNECTION_LOST
\* event, or two CONNECTION_LOST events), whichever is served first, exactly
\* one lost-connection notification is delivered and disconnect() is invoked
\* exactly once; the call served second finds DISCONNECTED and fails with the
\* no-such-transition error without side effects.
C29_SecondLossAlwaysRejected ==
    [][\A u \in Callers :
          SecondServed(u) => SecondFindsDisconnected(u)]_vars

\* C29 as amended: so it is unless the listener raised when it was notified
\* of the lost connection by the call served first. That call then ended with
\* the listener's exception and left the state CONNECTED: the call served
\* second detects the loss again and runs the recovery again, invoking
\* disconnect() and notifying the lost connection a second time.
C29_SecondLossRejected ==
    [][\A u \in Callers :
          SecondServed(u)
             => IF last.end = DISCONNECTED
                THEN SecondFindsDisconnected(u)
                ELSE /\ last.outcome = ListenerException
                     /\ last.ops[Len(last.ops)] = Notify(LOST_CONNECTION, CONNECTED)
                     /\ current_state = CONNECTED
                     /\ detected' = detected + 1
                     /\ Len(sent') = Len(sent) + 1
                     /\ sent'[Len(sent')].a = LOST_CONNECTION]_vars

\* A CONNECTION_LOST event was served right after the recovery of a command
\* whose primitive lost the connection: it has failed with the
\* no-such-transition error, one loss was detected and the listener has
\* received one lost-connection notification.
C29_Witness ==
    /\ Ended(DISCONNECTED, CONNECTION_LOST)
    /\ last.outcome = FSMStateError
    /\ NoCallInProgress
    /\ current_state = DISCONNECTED
    /\ detected = 1
    /\ LostSent = 1
    /\ after_loss = LOSS_NOTIFIED
    /\ << sent[Len(sent) - 1], sent[Len(sent)] >>
          = << [a |-> LOST_CONNECTION, b |-> CONNECTED],
               [a |-> DISCONNECTED, b |-> DISCONNECTED] >>

\* The steps of caller u's call after the step that handles it.
HandledOps(u) ==
    IF call'[u].pc = "idle" THEN last'.ops ELSE call'[u].ops

\* A DISCONNECT and a loss detection, both sent in CONNECTED, every
\* disconnect() returning normally: the one served first has ended (it is
\* the call that ended last) and the step is the handling of the other one,
\* sent by caller u.
DisconnectRace(u) ==
    /\ call[u].pc = "locked"
    /\ call'[u] # call[u]
    /\ last.pc = "done"
    /\ last.from = CONNECTED
    /\ \/ /\ last.event = DISCONNECT
          /\ last.ops[1] = Prim("disconnect", OK)
          /\ call[u].event \in Commands \cup {CONNECTION_LOST}
          /\ call[u].event \in Commands
                => \/ call'[u].pc = "idle" /\ last'.outcome = FSMStateError
                   \/ /\ HandledOps(u) # << >>
                      /\ HandledOps(u)[1] = Prim(PrimitiveOf(call[u].event),
                                                 PlatformConnectionException)
       \/ /\ Recovered
          /\ TeardownOutcome = OK
          /\ call[u].event = DISCONNECT
          /\ \A i \in DOMAIN HandledOps(u) :
                HandledOps(u)[i].k = "prim" => HandledOps(u)[i].b = OK

\* The DISCONNECT of the two has not failed with a usage or no-such-transition
\* fault and the state is, or is about to become, DISCONNECTED.
DisconnectNotRejected(u) ==
    /\ last.event = DISCONNECT => last.outcome \notin {FSMError, FSMStateError}
    /\ (call[u].event = DISCONNECT /\ call'[u].pc = "idle")
          => last'.outcome \notin {FSMError, FSMStateError}
    /\ IF call'[u].pc = "idle"
       THEN current_state' = DISCONNECTED
       ELSE call'[u].pc = "transition" /\ call'[u].next_state = DISCONNECTED

\* disconnect() invocations of the two calls together.
DisconnectsOfBoth(u) ==
    Invoked(last.ops, "disconnect") + Invoked(HandledOps(u), "disconnect")

\* C30 as claimed: starting in CONNECTED with disconnect() succeeding, for
\* every interleaving of a DISCONNECT with a concurrent loss detection, the
\* DISCONNECT never fails with a usage or no-such-transition fault, the final
\* state is DISCONNECTED and disconnect() is invoked exactly once in total.
C30_DisconnectRaceAlwaysOnce ==
    [][\A u \in Callers :
          DisconnectRace(u)
             => /\ DisconnectNotRejected(u)
                /\ DisconnectsOfBoth(u) = 1]_vars

\* C30 as amended: the DISCONNECT never fails with a usage or
\* no-such-transition fault and the final state is DISCONNECTED; disconnect()
\* is invoked exactly once in total (the call served second finding
\* DISCONNECTED: a DISCONNECT then returns None having done nothing, a loss
\* detection fails with the no-such-transition error) unless the listener
\* raised for the lost-connection notification of a loss detection served
\* first: the state is then still CONNECTED and the DISCONNECT invokes
\* disconnect() a second time.
C30_DisconnectRaceOnce ==
    [][\A u \in Callers :
          DisconnectRace(u)
             => /\ DisconnectNotRejected(u)
                /\ IF last.end = DISCONNECTED
                   THEN /\ DisconnectsOfBoth(u) = 1
                        /\ call'[u] = Idle
                        /\ UNCHANGED << current_state, driver_config, sent, detected >>
                        /\ HandledOps(u) = << >>
                        /\ last'.outcome
                              = (IF call[u].event = DISCONNECT THEN RETURNED ELSE FSMStateError)
                        /\ last'.result = None
                   ELSE /\ last.outcome = ListenerException
                        /\ last.ops[Len(last.ops)] = Notify(LOST_CONNECTION, CONNECTED)
                        /\ call[u].event = DISCONNECT
                        /\ HandledOps(u) = << Prim("disconnect", OK) >>
                        /\ DisconnectsOfBoth(u) = 2]_vars

\* A DISCONNECT was served right after the recovery of a detected loss: it
\* has returned None having done nothing, and the listener has received the
\* lost-connection notification and the one state-change notification.
C30_Witness ==
    /\ Ended(DISCONNECTED, DISCONNECT)
    /\ last.outcome = RETURNED
    /\ last.ops = << >>
    /\ NoCallInProgress
    /\ current_state = DISCONNECTED
    /\ detected = 1
    /\ after_loss = LOSS_NOTIFIED
    /\ sent = << [a |-> DISCONNECTED, b |-> DISCONNECTED],
                 [a |-> CONNECTED, b |-> CONNECTED],
                 [a |-> LOST_CONNECTION, b |-> CONNECTED],
                 [a |-> DISCONNECTED, b |-> DISCONNECTED] >>

\* Caller t is in an on_event call.
InOnEvent(t) == call[t].pc # "idle"

\* Some call in progress can take its next step: the lock can be taken, or
\* the call that holds it can run its handler or its transition.
SomeCallAdvances ==
    \E t \in Callers : ENABLED (Acquire(t) \/ Handle(t) \/ Transition(t))

\* C31: with every primitive and every listener callback returning and the
\* lock granted fairly, every on_event call of every caller eventually ends,
\* with a result or an exception; a caller that waits for the lock leaves
\* its wait by taking the lock, no call being inside any more; and in no
\* reachable state are calls in progress of which none can advance.
C31_EveryCallReturns ==
    /\ []((\E t \in Callers : InOnEvent(t)) => SomeCallAdvances)
    /\ \A t \in Callers : InOnEvent(t) ~> ~InOnEvent(t)
    /\ [][\A t \in Callers :
             (call[t].pc = "waiting" /\ call'[t] # call[t])
                => /\ lock = 0
                   /\ \A u \in Callers : ~Inside(u)
                   /\ lock' = t
                   /\ call'[t].pc = "locked"]_vars

\* One caller is making the transition of a recovery while the other one
\* waits for the lock.
C31_Witness ==
    \E t, u \in Callers :
       /\ call[t].pc = "transition"
       /\ call[t].event = PING
       /\ call[t].next_state = DISCONNECTED
       /\ lock = t
       /\ call[u].pc = "waiting"
       /\ last.pc = "done"
       /\ last.outcome = ListenerException

\* C32 as claimed: when create_notification publishes the ReloadUserInfoEvent
\* for the new notification, the registry already holds the change: the
\* NotificationRequest is persisted and a user's record lists it.
C32_CreatedEventAfterRegistryChange ==
    \A i \in DOMAIN published :
       published[i].description = "A notification has been created."
          => /\ published[i].persisted
             /\ published[i].listed

\* The state a primitive belongs to (validate_driver_configuration is a hook
\* of configure, not a device primitive).
StateOfPrimitive(name) ==
    IF name = "connect" THEN DISCONNECTED ELSE CONNECTED

DevicePrimitives == CommandPrimitives \cup {"connect", "disconnect"}

\* C33: device primitives are invoked in the matching state only: connect()
\* while the state is DISCONNECTED, ping(), get(), set_attribute_values(),
\* execute() and disconnect() (that of the recovery included) while it is
\* CONNECTED, none while it is UNCONFIGURED. Stated of the step in which a
\* handler runs, the state being the engine's at that moment, and of the
\* transition, which invokes none.
C33_PrimitivesInMatchingState ==
    [][\A t \in Callers :
          /\ (call[t].pc = "locked" /\ call'[t] # call[t])
                => \A i \in DOMAIN HandledOps(t) :
                      HandledOps(t)[i].k = "prim"
                         => \/ HandledOps(t)[i].a = "validate_driver_configuration"
                            \/ /\ HandledOps(t)[i].a \in DevicePrimitives
                               /\ current_state = StateOfPrimitive(HandledOps(t)[i].a)
                               /\ current_state # UNCONFIGURED
          /\ (call[t].pc = "transition" /\ call'[t] # call[t])
                => Invoked(last'.ops, "connect") + Invoked(last'.ops, "disconnect")
                      = Invoked(call[t].ops, "connect") + Invoked(call[t].ops, "disconnect")]_vars

\* A SET whose set_attribute_values() lost the connection has invoked the
\* disconnect() of the recovery, both in CONNECTED, after a connect() invoked
\* in DISCONNECTED.
C33_Witness ==
    /\ Ended(CONNECTED, SET)
    /\ Len(last.ops) >= 2
    /\ last.ops[1] = Prim("set_attribute_values", PlatformConnectionException)
    /\ last.ops[2] = Prim("disconnect", OK)
    /\ sent[2] = [a |-> CONNECTED, b |-> CONNECTED]
    /\ current_state = DISCONNECTED

\* C34: the lost-connection notification is delivered while the state is
\* still CONNECTED: what the listener reads as the driver's state inside the
\* callback for it is CONNECTED, the step that delivers it leaves the state
\* CONNECTED, and the state becomes DISCONNECTED in a later step only, the
\* transition of a call whose handler, and so the callback, has returned.
C34_LossNotifiedWhileConnected ==
    /\ [](\A i \in DOMAIN sent :
             sent[i].a = LOST_CONNECTION => sent[i].b = CONNECTED)
    /\ [][/\ (Len(sent') > Len(sent) /\ sent'[Len(sent')].a = LOST_CONNECTION)
                => /\ current_state = CONNECTED
                   /\ current_state' = CONNECTED
          /\ (current_state = CONNECTED /\ current_state' = DISCONNECTED)
                => \E t \in Callers :
                      /\ call[t].pc = "transition"
                      /\ call'[t].pc = "idle"
                      /\ DetectsLoss(call[t].event, call[t].ops)
                            => /\ Delivered(call[t].ops)
                                    = << [a |-> LOST_CONNECTION, b |-> CONNECTED] >>
                               /\ LastSent(1) = Delivered(call[t].ops)]_vars

\* The callback for the lost-connection notification of a CONNECTION_LOST
\* event has returned and the state is still CONNECTED: the call is about to
\* make its transition.
C34_Witness ==
    \E t \in Callers :
       /\ call[t].pc = "transition"
       /\ call[t].event = CONNECTION_LOST
       /\ call[t].next_state = DISCONNECTED
       /\ current_state = CONNECTED
       /\ sent[Len(sent)] = [a |-> LOST_CONNECTION, b |-> CONNECTED]

\* The recovery ran in the call that ended last and the listener raised when
\* it was notified of the lost connection.
ListenerRaisedOnLoss ==
    /\ Recovered
    /\ after_loss = LOSS_NOTIFY_RAISED

\* C35: when the listener callback raises while the lost-connection
\* notification is delivered, its exception ends on_event, the state remains
\* CONNECTED and no state-change notification is emitted, although
\* disconnect() was invoked (once, before the notification).
C35_ListenerFaultOnLossLeavesConnected ==
    ListenerRaisedOnLoss
       => /\ last.outcome = ListenerException
          /\ last.end = CONNECTED
          /\ Notified(last.ops, DISCONNECTED) = 0
          /\ Notifications(last.ops) = 1
          /\ \A i \in DOMAIN last.ops : last.ops[i].k \notin {"state", "hook"}
          /\ Invoked(last.ops, "disconnect") = 1
          /\ Len(last.ops) >= 2
          /\ last.ops[Len(last.ops) - 1].k = "prim"
          /\ last.ops[Len(last.ops) - 1].a = "disconnect"
          /\ last.ops[Len(last.ops)] = Notify(LOST_CONNECTION, CONNECTED)
          /\ NoCallInProgress => current_state = CONNECTED

\* An EXECUTE whose execute() lost the connection has ended with the
\* exception the listener raised for the lost-connection notification: the
\* driver is still CONNECTED and the listener has received no state-change
\* notification since.
C35_Witness ==
    /\ Ended(CONNECTED, EXECUTE)
    /\ ListenerRaisedOnLoss
    /\ last.outcome = ListenerException
    /\ last.ops = << Prim("execute", PlatformConnectionException),
                     Prim("disconnect", OK),
                     Notify(LOST_CONNECTION, CONNECTED) >>
    /\ NoCallInProgress
    /\ current_state = CONNECTED
    /\ sent[Len(sent)].a = LOST_CONNECTION

\* The call that ended last ended with the exception the listener raised for
\* the state-change notification of its transition.
ListenerRaisedOnEnter ==
    /\ last.pc = "done"
    /\ last.outcome = ListenerException
    /\ last.ops # << >>
    /\ last.ops[Len(last.ops)].k = "notify"
    /\ last.ops[Len(last.ops)].a \in PlatformDriverState

\* C36: when the listener callback raises while the state-change notification
\* of a transition is delivered (ENTER of the new state), the exception ends
\* on_event but the transition stands: the state is the new state already and
\* what the handler did is kept (the configuration it stored, the connection
\* it opened or closed). The step that makes the transition changes the state
\* to the handler's next state and leaves the configuration alone whether the
\* listener raises or not.
C36_ListenerFaultOnEnterKeepsTransition ==
    /\ [](ListenerRaisedOnEnter
            => /\ last.end = last.ops[Len(last.ops)].a
               /\ << last.from, last.end >> \in StateChangesAllowed
               /\ last.result = None
               /\ last.from = UNCONFIGURED
                     => /\ last.config = last.kw.driver_config
                        /\ last.config \in Configs
               /\ last.from = DISCONNECTED
                     => last.ops[1] = Prim("connect", OK)
               /\ last.from = CONNECTED
                     => /\ Invoked(last.ops, "disconnect") = 1
                        /\ last.event \in Commands \cup {CONNECTION_LOST}
                              => Notified(last.ops, LOST_CONNECTION) = 1
               /\ NoCallInProgress
                     => current_state = last.end /\ driver_config = last.config)
    /\ [][\A t \in Callers :
             (call[t].pc = "transition" /\ call'[t] # call[t])
                => /\ call'[t] = Idle
                   /\ current_state' = call[t].next_state
                   /\ current_state' # current_state
                   /\ driver_config' = driver_config
                   /\ last'.end = current_state'
                   /\ last'.config = driver_config
                   /\ last'.outcome \in {RETURNED, ListenerException}]_vars

\* A CONFIGURE has ended with the exception the listener raised for the
\* state-change notification: the driver is DISCONNECTED with the
\* configuration stored.
C36_Witness ==
    /\ Ended(UNCONFIGURED, CONFIGURE)
    /\ ListenerRaisedOnEnter
    /\ NoCallInProgress
    /\ current_state = DISCONNECTED
    /\ driver_config = "config_a"
    /\ sent = << [a |-> DISCONNECTED, b |-> DISCONNECTED] >>

\* The states carried by the state-change notifications the listener has
\* received, in order.
RECURSIVE StatesNotified(_)
StatesNotified(s) ==
    IF s = << >>
    THEN << >>
    ELSE (IF Head(s).a \in PlatformDriverState THEN << Head(s).a >> ELSE << >>)
            \o StatesNotified(Tail(s))

\* C37: the states carried by the state-change notifications of the
\* transitions form a path of the transition graph: the first is
\* DISCONNECTED, each later one is CONNECTED after DISCONNECTED or
\* DISCONNECTED after CONNECTED, no two in a row are the same, none is
\* UNCONFIGURED, and the last one is the state the driver is in once no call
\* is in progress.
C37_NotifiedStatesFormPath ==
    LET path == StatesNotified(sent)
    IN  /\ path # << >> => path[1] = DISCONNECTED
        /\ \A i \in DOMAIN path : path[i] \in {DISCONNECTED, CONNECTED}
        /\ \A i \in DOMAIN path :
              i > 1 => /\ path[i] # path[i - 1]
                       /\ << path[i - 1], path[i] >> \in StateChangesAllowed
        /\ (NoCallInProgress /\ path # << >>) => path[Len(path)] = current_state
        /\ path = << >> => current_state = UNCONFIGURED

\* The driver was configured, connected, lost the connection and was
\* connected again: the listener has received four state-change
\* notifications with the lost-connection notification among them.
C37_Witness ==
    /\ StatesNotified(sent) = << DISCONNECTED, CONNECTED, DISCONNECTED, CONNECTED >>
    /\ Len(sent) = 5
    /\ sent[3].a = LOST_CONNECTION
    /\ NoCallInProgress
    /\ current_state = CONNECTED


\* ------------------------------------------------------------------ C38

\* The subscribers that were activated and not yet deactivated.
ActiveSubscribers == {i \in NotificationIds : subscribers[i] = "active"}

\* The subscribers on_quit gets to: those of the processors in
\* event_processors.
ReachableSubscribers == {p.subscriber : p \in event_processors}

\* C38: after any calls of create_notification and delete_notification,
\* every subscriber that is active is the subscriber of a processor in
\* event_processors, and once on_quit has returned no subscriber is active.
\* The second create_notification of one user replaces the user's processor
\* and leaves the subscriber of the first active, out of on_quit's reach.
C38_QuitStopsEverySubscriber ==
    /\ ActiveSubscribers \subseteq ReachableSubscribers
    /\ uns_last.op = "quit" => ActiveSubscribers = {}

=============================================================================
